---- MODULE Spec2Model ----
(***************************************************************************)
(* Model of llmeter's fetch orchestration:                                 *)
(*   - the dashboard refresh-cycle coordinator of LLMeterApp               *)
(*     (src/src/llmeter/app.py: _refresh_all, _fetch_provider);            *)
(*   - the backend orchestrator (src/src/llmeter/backend.py: fetch_one,    *)
(*     fetch_all);                                                         *)
(*   - the credential store (src/src/llmeter/auth.py) and the loading,     *)
(*     refreshing and writing of OAuth credentials by the providers        *)
(*     (src/src/llmeter/providers/subscription);                           *)
(*   - the interactive logins of the OAuth providers                       *)
(*     (src/src/llmeter/providers/subscription/*_login.py), with their     *)
(*     PKCE pair (_generate_pkce);                                         *)
(*   - the fetch call of a provider, from the credentials to the result    *)
(*     (src/src/llmeter/providers/subscription/base.py, api/base.py);      *)
(*   - the login command of the command line (cli/auth.py:                 *)
(*     login_provider; config.py: enable_provider);                        *)
(*   - the status line of the dashboard (app.py: _update_status).          *)
(***************************************************************************)
EXTENDS Integers, Sequences, FiniteSets, TLC

(***************************************************************************)
(* Bounds of the model.                                                    *)
(***************************************************************************)
\* longest configured provider list (AppConfig.providers)
MaxProviders == 2
\* number of _refresh_all calls (mount, timer ticks, manual refreshes)
MaxTriggers == 3
\* longest provider_ids list handed to fetch_all
MaxIds == 3
\* longest provider_ids list in the two-run comparison of fetch_all
MaxIsoIds == 2

(***************************************************************************)
(* Values.                                                                 *)
(***************************************************************************)
\* Python's None
None == "None"

\* keys of backend.PROVIDER_FETCHERS used in the model
Registered == {"codex", "claude"}

\* an id with no entry in PROVIDER_FETCHERS
UnknownId == "does-not-exist"

\* ids a caller may pass to fetch_one / fetch_all
AllIds == Registered \cup {UnknownId}

\* messages str(e) of the exceptions a fetch function may raise
\* ("" is str(e) of an exception built without arguments, e.g. a timeout)
Messages == {"boom", ""}

\* what one invocation of a provider's fetch function does:
\*   ok       returns a result without error (usage data)
\*   nocreds  returns a result whose error is the no-credentials message
\*   raise    raises an Exception whose str() is msg
Behaviours ==
    {[kind |-> "ok", msg |-> None], [kind |-> "nocreds", msg |-> None]}
    \cup {[kind |-> "raise", msg |-> m] : m \in Messages}

\* the behaviours told apart in the dashboard: a fetch that yields usage data
\* and one that fails
DashboardBehaviours ==
    {[kind |-> "ok", msg |-> None], [kind |-> "raise", msg |-> "boom"]}

Range(s) == {s[i] : i \in DOMAIN s}

SeqsUpTo(S, n) == UNION {[1..k -> S] : k \in 0..n}

(***************************************************************************)
(* models.py / backend.py : results and fetch_one                          *)
(***************************************************************************)
\* ProviderMeta looked up for an id: PROVIDERS.get(provider_id, _FALLBACK_META)
MetaId(provider_id) ==
    IF provider_id \in Registered THEN provider_id ELSE "?"

\* variant: the result always carries the id of the meta it was built from
ToResult_MetaId(meta_id, provider_id, error) ==
    [provider_id |-> meta_id, error |-> error]

\* ProviderMeta.to_result(provider_id=..., error=...): the overrides replace
\* the metadata's own fields
ToResult(meta_id, provider_id, error) ==
    [provider_id |-> IF provider_id = None THEN meta_id ELSE provider_id,
     error |-> error]

\* a key that a dict of results does not hold
NoResult == [provider_id |-> None, error |-> None]

\* the no_credentials_error of a subscription provider
NoCredentialsError(provider_id) == "No credentials found: " \o provider_id

\* outcome of awaiting the registered fetch function of provider_id:
\* either it returns a ProviderResult or an exception propagates
Fetcher(provider_id, b) ==
    CASE b.kind = "ok" ->
           [raised |-> FALSE, value |-> ToResult(provider_id, None, None)]
      [] b.kind = "nocreds" ->
           [raised |-> FALSE,
            value |-> ToResult(provider_id, None, NoCredentialsError(provider_id))]
      [] b.kind = "raise" ->
           [raised |-> TRUE, value |-> b.msg]

\* variant: the except clause reports a fixed text instead of str(e)
FetchOneExcept_FixedText(provider_id, outcome) ==
    [raised |-> FALSE,
     value |-> ToResult(MetaId(provider_id), provider_id, "fetch failed")]

\* variant: the exception is not caught
FetchOneExcept_Reraise(provider_id, outcome) == outcome

\* the except clause of fetch_one
FetchOneExcept(provider_id, outcome) ==
    [raised |-> FALSE,
     value |-> ToResult(MetaId(provider_id), provider_id, outcome.value)]

\* fetch_one(provider_id): unknown id -> immediate error result; otherwise the
\* fetch function is awaited and every Exception becomes an error result
FetchOne(provider_id, b) ==
    IF provider_id \notin Registered
    THEN [raised |-> FALSE,
          value |-> ToResult(MetaId(provider_id), provider_id,
                             "Unknown provider: " \o provider_id)]
    ELSE LET outcome == Fetcher(provider_id, b)
         IN  IF outcome.raised
             THEN FetchOneExcept(provider_id, outcome)
             ELSE outcome

(***************************************************************************)
(* State.                                                                  *)
(***************************************************************************)
VARIABLES
    config_providers,       \* AppConfig.providers: the configured ids, in order
    pending_provider_ids,   \* LLMeterApp._pending_provider_ids
    refresh_in_progress,    \* LLMeterApp._refresh_in_progress
    refresh_queued,         \* LLMeterApp._refresh_queued
    providers,              \* LLMeterApp._providers: id -> last result
    workers,                \* _fetch_provider workers: <<cycle, index>> -> position
    cycles,                 \* history: fetch cycles started
    trigs,                  \* history: calls of _refresh_all from outside
    busyTrig,               \* history: calls absorbed by the cycle in progress
    owed,                   \* history: cycles the calls so far ask for
    decisions,              \* history: executions of the end-of-cycle block
    followup,               \* history: the latest cycle was started by that block
    runs,                   \* fetch_all calls: run -> call state
    now,                    \* wall clock, in ms since the epoch
    auth_file,              \* ~/.config/llmeter/auth.json
    cred_call,              \* a get_valid_credentials call of one provider
    store_op,               \* history: the latest write to auth.json
    calls,                  \* get_valid_credentials calls in flight together
    login,                  \* an interactive_login call (llmeter --login)
    fetch,                  \* a provider's fetch call (SubscriptionProvider.__call__)
    pkce,                   \* a _generate_pkce call of a login flow
    settings_file,          \* settings.json
    cli                     \* a login_provider call of the command line

coordVars == <<config_providers, pending_provider_ids, refresh_in_progress,
               refresh_queued, providers, workers, cycles, trigs, busyTrig,
               owed, decisions, followup>>

envVars == <<now, auth_file, cred_call, store_op, calls, login, fetch,
             pkce, settings_file, cli>>

vars == <<coordVars, runs, envVars>>

(***************************************************************************)
(* auth.py : the credential store                                          *)
(***************************************************************************)
\* a key that a dict does not hold
Missing == "<missing>"

\* a dict without the "expires" key
NoExpires == -1

\* 5-minute safety buffer before actual expiry
EXPIRY_BUFFER_MS == 5 * 60 * 1000

\* variant: cookie records are not loaded either
VALID_TYPES_OAuthOnly == {"oauth"}

VALID_TYPES == {"oauth", "cookie"}

\* the keys of auth.json the providers use
ClaudeId == "anthropic"
CodexId == "openai-codex"
GeminiId == "google-gemini-cli"
CopilotId == "github-copilot"
CursorKey == "cursor"

\* the providers whose access token is refreshed
OAuthProviders == {ClaudeId, CodexId, GeminiId}

\* the providers that read an oauth record
OAuthReaders == OAuthProviders \cup {CopilotId}

AuthIds == OAuthReaders \cup {CursorKey}

\* the keys of a credentials dict; "foreign" is a key none of the providers
\* writes
Fields ==
    {"type", "access", "refresh", "expires", "accountId", "projectId",
     "email", "cookie", "foreign"}

\* the dict {}
EmptyCreds ==
    [type |-> Missing, access |-> Missing, refresh |-> Missing,
     expires |-> NoExpires, accountId |-> Missing, projectId |-> Missing,
     email |-> Missing, cookie |-> Missing, foreign |-> Missing]

\* the value None where a credentials dict is expected
NoCreds == [EmptyCreds EXCEPT !.type = None]

\* the keys a dict holds
Present(creds) ==
    {f \in Fields :
        IF f = "expires" THEN creds.expires # NoExpires ELSE creds[f] # Missing}

\* creds.get(f)
Get(creds, f) == IF creds[f] = Missing THEN None ELSE creds[f]

\* bool(v) of a string or None
Truthy(v) == v \notin {None, "", Missing}

\* a or b
Or(a, b) == IF Truthy(a) THEN a ELSE b

\* json.dumps(data): one member per provider id, its value an object with one
\* member per key the dict holds
Dumps(data) ==
    {<<id, {<<f, data[id][f]>> : f \in Present(data[id])}>> : id \in DOMAIN data}

\* json.loads(text) of a text that holds an object of objects
Loads(text) ==
    [id \in {m[1] : m \in text} |->
        LET members == (CHOOSE m \in text : m[1] = id)[2]
        IN  [f \in Fields |->
                IF \E m \in members : m[1] = f
                THEN (CHOOSE m \in members : m[1] = f)[2]
                ELSE IF f = "expires" THEN NoExpires ELSE Missing]]

\* auth.json does not exist
MissingFile == [state |-> "missing", text |-> {}]

\* auth.json does not hold a JSON object
CorruptFile == [state |-> "corrupt", text |-> {}]

\* auth.json holds bytes that are not text in the encoding read_text() uses
UndecodableFile == [state |-> "undecodable", text |-> {}]

\* the files load_all() cannot take a JSON object from
CorruptFiles == {CorruptFile, UndecodableFile}

\* path.read_text() raises UnicodeDecodeError, which is neither the
\* JSONDecodeError nor the OSError that load_all() catches
LoadAllRaises(file) == file.state = "undecodable"

\* load_all(): the whole of auth.json, {} if it is missing or corrupt
load_all(file) ==
    IF file.state = "ok" THEN Loads(file.text) ELSE [id \in {} |-> NoCreds]

\* _save_all(data): the file after the write
save_all(data) == [state |-> "ok", text |-> Dumps(data)]

\* load_provider(provider_id)
load_provider(file, provider_id) ==
    LET data == load_all(file)
    IN  IF provider_id \in DOMAIN data /\ data[provider_id].type \in VALID_TYPES
        THEN data[provider_id]
        ELSE NoCreds

\* variant: the write holds the saved provider only
save_provider_NoMerge(file, provider_id, creds) ==
    save_all([k \in {provider_id} |-> creds])

\* save_provider(provider_id, creds): the file after the call
save_provider(file, provider_id, creds) ==
    LET data == load_all(file)
    IN  save_all([k \in DOMAIN data \cup {provider_id} |->
                     IF k = provider_id THEN creds ELSE data[k]])

\* variant: the file is written whether or not it holds the key
clear_provider_Rewrite(file, provider_id) ==
    LET data == load_all(file)
    IN  save_all([k \in DOMAIN data \ {provider_id} |-> data[k]])

\* clear_provider(provider_id): the file after the call
clear_provider(file, provider_id) ==
    LET data == load_all(file)
    IN  IF provider_id \in DOMAIN data
        THEN save_all([k \in DOMAIN data \ {provider_id} |-> data[k]])
        ELSE file

\* variant: the safety buffer is subtracted once more at the comparison
is_expired_Early(creds, t) ==
    t >= (IF creds.expires = NoExpires THEN 0 ELSE creds.expires) - EXPIRY_BUFFER_MS

\* is_expired(creds), the clock reading t
is_expired(creds, t) ==
    t >= (IF creds.expires = NoExpires THEN 0 ELSE creds.expires)

(***************************************************************************)
(* the clock                                                               *)
(***************************************************************************)
MaxTicks == 1

\* the clock when the behaviour starts
StartMs == 600000

\* time that passes between two steps of the program
TickMs == 40000

\* the default of fetch_one's timeout parameter, in ms
TimeoutMs == 30000

\* _now_ms(): int(time.time() * 1000)
NowMs == now

\* time passes
Tick ==
    /\ now < StartMs + MaxTicks * TickMs
    /\ now' = now + TickMs
    /\ UNCHANGED <<coordVars, runs, settings_file, cli, pkce, fetch, auth_file, cred_call, store_op, calls, login>>

\* now_ms(), the clock of the auth module as claude.py, codex.py and
\* codex_login.py read it
now_ms == now

\* the clock the refresh and the login of a provider read
ClockOf(p) == IF p = GeminiId THEN NowMs ELSE now_ms

(***************************************************************************)
(* providers/subscription : loading and refreshing OAuth credentials       *)
(***************************************************************************)
\* a token response without "expires_in"
NoExpiresIn == -1

\* the JSON object a token endpoint answers with
Bodies ==
    [access_token : {Missing, "acc1", "jwt-acct1"},
     refresh_token : {Missing, "ref1"},
     expires_in : {NoExpiresIn, 3600},
     id_token : {Missing, "id-noemail", "id-e1"}]

EmptyBody ==
    [access_token |-> Missing, refresh_token |-> Missing,
     expires_in |-> NoExpiresIn, id_token |-> Missing]

\* what the POST to the token endpoint does: the transport fails or times
\* out, or an HTTP response arrives
Responses ==
    {[kind |-> "transport", status |-> 0, body |-> EmptyBody],
     [kind |-> "http", status |-> 400, body |-> EmptyBody]}
    \cup {[kind |-> "http", status |-> 200, body |-> b] : b \in Bodies}

NoResponse == [kind |-> "none", status |-> 0, body |-> EmptyBody]

\* the token responses an interactive login gets when the exchange succeeds
LoginBodies ==
    [access_token : {"jwt-acct1"}, refresh_token : {"ref1"},
     expires_in : {NoExpiresIn, 300, 3600}, id_token : {Missing, "id-e1"}]

\* what the userinfo endpoint tells _get_user_email
UserinfoEmails == {None, "e1"}

\* extract_account_id(access_token): the chatgpt_account_id claim of the JWT
ExtractAccountId(access_token) ==
    IF access_token = "jwt-acct1" THEN "acct1" ELSE None

\* extract_email(id_token): the email claim of the JWT
ExtractEmail(id_token) == IF id_token = "id-e1" THEN "e1" ELSE None

\* variant: the safety buffer is not subtracted
ExpiresAt_NoBuffer(t, expires_in) == t + expires_in * 1000

\* now + expires_in * 1000 - EXPIRY_BUFFER_MS
ExpiresAt(t, expires_in) == t + expires_in * 1000 - EXPIRY_BUFFER_MS

Raised(exc) == [exc |-> exc, creds |-> NoCreds]

Returned(creds) == [exc |-> None, creds |-> creds]

\* token_data.get("refresh_token", refresh_token)
NewRefresh(creds, body) ==
    IF body.refresh_token # Missing THEN body.refresh_token ELSE creds.refresh

\* claude.refresh_access_token from the response on: the exception raised
\* or the credentials saved and returned
claude_refresh_access_token(creds, resp, t) ==
    IF resp.kind = "transport" THEN Raised("ClientError")
    ELSE IF resp.status # 200 THEN Raised("RuntimeError")
    ELSE IF resp.body.access_token = Missing \/ resp.body.expires_in = NoExpiresIn
    THEN Raised("KeyError")
    ELSE Returned([EmptyCreds EXCEPT
                      !.type = "oauth",
                      !.refresh = NewRefresh(creds, resp.body),
                      !.access = resp.body.access_token,
                      !.expires = ExpiresAt(t, resp.body.expires_in)])

\* codex.refresh_access_token from the response on
codex_refresh_access_token(creds, resp, t) ==
    IF resp.kind = "transport" THEN Raised("ClientError")
    ELSE IF resp.status # 200 THEN Raised("RuntimeError")
    ELSE IF ~Truthy(resp.body.access_token) \/ resp.body.expires_in = NoExpiresIn
    THEN Raised("RuntimeError")
    ELSE LET account_id == Or(ExtractAccountId(resp.body.access_token),
                              Get(creds, "accountId"))
             email == IF Truthy(resp.body.id_token)
                      THEN ExtractEmail(resp.body.id_token)
                      ELSE Get(creds, "email")
         IN  Returned([EmptyCreds EXCEPT
                          !.type = "oauth",
                          !.access = resp.body.access_token,
                          !.refresh = NewRefresh(creds, resp.body),
                          !.expires = ExpiresAt(t, resp.body.expires_in),
                          !.accountId = account_id,
                          !.email = IF Truthy(email) THEN email ELSE Missing])

\* gemini.refresh_access_token from the response on; userinfo is the answer
\* _get_user_email gets when the stored record has no email
gemini_refresh_access_token(creds, resp, t, userinfo) ==
    IF resp.kind = "transport" THEN Raised("ClientError")
    ELSE IF resp.status # 200 THEN Raised("RuntimeError")
    ELSE IF ~Truthy(resp.body.access_token) THEN Raised("RuntimeError")
    ELSE LET expires_in == IF resp.body.expires_in = NoExpiresIn
                           THEN 3600 ELSE resp.body.expires_in
             email == IF Truthy(Get(creds, "email"))
                      THEN creds.email ELSE userinfo
         IN  Returned([EmptyCreds EXCEPT
                          !.type = "oauth",
                          !.refresh = NewRefresh(creds, resp.body),
                          !.access = resp.body.access_token,
                          !.expires = ExpiresAt(t, expires_in),
                          !.projectId = IF creds.projectId = Missing
                                        THEN "" ELSE creds.projectId,
                          !.email = email])

refresh_access_token(p, creds, resp, t, userinfo) ==
    CASE p = ClaudeId -> claude_refresh_access_token(creds, resp, t)
      [] p = CodexId -> codex_refresh_access_token(creds, resp, t)
      [] p = GeminiId -> gemini_refresh_access_token(creds, resp, t, userinfo)

\* load_credentials() of provider p
load_credentials(file, p) ==
    LET creds == load_provider(file, p)
    IN  CASE p = ClaudeId ->
                IF /\ creds # NoCreds
                   /\ Truthy(Get(creds, "access"))
                   /\ Truthy(Get(creds, "refresh"))
                THEN creds ELSE NoCreds
          [] p = CodexId ->
                IF /\ creds # NoCreds
                   /\ Truthy(Get(creds, "access"))
                   /\ Truthy(Get(creds, "refresh"))
                   /\ Truthy(Get(creds, "accountId"))
                THEN creds ELSE NoCreds
          [] p = GeminiId -> creds
          [] p = CopilotId ->
                IF creds # NoCreds /\ Truthy(Get(creds, "access"))
                THEN creds ELSE NoCreds

\* no get_valid_credentials call has been made; of a call that has been made
\*   p          the provider
\*   pc         "refreshing" while the POST of the refresh grant is awaited
\*   creds      what load_credentials() returned
\*   resp       the response to the refresh grant
\*   kind       "none": None returned, "value": a token or credentials
\*              returned, "raised": an exception left the call
\*   access     the access token returned
\*   ret        the credentials returned (codex, gemini)
\*   exc        the exception that left the call
\*   requested  history: the refresh grant was POSTed
\*   at, file   history: the clock and auth.json when the call was made
NoCall ==
    [p |-> None, pc |-> "idle", creds |-> NoCreds, resp |-> NoResponse,
     kind |-> "pending", access |-> None, ret |-> NoCreds, exc |-> None,
     requested |-> FALSE, at |-> 0, file |-> MissingFile]

\* auth.json has not been written
NoOp ==
    [op |-> "none", id |-> None, rec |-> NoCreds, at |-> 0,
     expires_in |-> NoExpiresIn, n |-> 0]

\* variant: the token loaded before the refresh is returned
ReturnValue_Stale(c, creds) ==
    [c EXCEPT !.pc = "done", !.kind = "value", !.access = Get(c.creds, "access"),
              !.ret = IF c.p \in {CodexId, GeminiId} THEN c.creds ELSE NoCreds]

\* return creds.get("access") (claude, copilot) or return creds (codex, gemini)
ReturnValue(c, creds) ==
    [c EXCEPT !.pc = "done", !.kind = "value", !.access = Get(creds, "access"),
              !.ret = IF c.p \in {CodexId, GeminiId} THEN creds ELSE NoCreds]

\* return None
ReturnNone(c) == [c EXCEPT !.pc = "done", !.kind = "none"]

\* an exception leaves the call
Propagate(c, exc) == [c EXCEPT !.pc = "done", !.kind = "raised", !.exc = exc]

\* except RuntimeError: return None; any other exception propagates
AfterRefreshFailure(c, exc) ==
    IF exc = "RuntimeError" THEN ReturnNone(c) ELSE Propagate(c, exc)

\* variant: the provider works from the record it loaded for its last call
GetValid_Cached(p) ==
    /\ cred_call.pc = "idle"
    /\ LET creds == load_credentials(cred_call.file, p)
           c == [cred_call EXCEPT !.p = p, !.creds = creds, !.at = now,
                                  !.file = auth_file]
       IN  cred_call' =
             IF LoadAllRaises(auth_file) THEN Propagate(c, "UnicodeDecodeError")
             ELSE IF creds = NoCreds THEN ReturnNone(c)
             ELSE IF p = CopilotId THEN ReturnValue(c, creds)
             ELSE IF ~is_expired(creds, NowMs) THEN ReturnValue(c, creds)
             ELSE IF ~Truthy(Get(creds, "refresh"))
             THEN \* refresh_access_token raises RuntimeError before the POST
                  AfterRefreshFailure(c, "RuntimeError")
             ELSE [c EXCEPT !.pc = "refreshing", !.requested = TRUE]
    /\ UNCHANGED <<coordVars, runs, settings_file, cli, pkce, fetch, now, auth_file, store_op, calls, login>>

\* get_valid_access_token / get_valid_credentials of provider p, up to its
\* return or to the POST of the refresh grant
GetValid(p) ==
    /\ cred_call.pc = "idle"
    /\ LET creds == load_credentials(auth_file, p)
           c == [cred_call EXCEPT !.p = p, !.creds = creds, !.at = now,
                                  !.file = auth_file]
       IN  cred_call' =
             IF LoadAllRaises(auth_file) THEN Propagate(c, "UnicodeDecodeError")
             ELSE IF creds = NoCreds THEN ReturnNone(c)
             ELSE IF p = CopilotId THEN ReturnValue(c, creds)
             ELSE IF ~is_expired(creds, NowMs) THEN ReturnValue(c, creds)
             ELSE IF ~Truthy(Get(creds, "refresh"))
             THEN \* refresh_access_token raises RuntimeError before the POST
                  AfterRefreshFailure(c, "RuntimeError")
             ELSE [c EXCEPT !.pc = "refreshing", !.requested = TRUE]
    /\ UNCHANGED <<coordVars, runs, settings_file, cli, pkce, fetch, now, auth_file, store_op, calls, login>>

\* the POST of the refresh grant is over: refresh_access_token and the
\* caller run to the return
RefreshResponse(resp, userinfo) ==
    /\ cred_call.pc = "refreshing"
    /\ LET out == refresh_access_token(cred_call.p, cred_call.creds, resp,
                                       ClockOf(cred_call.p), userinfo)
           c == [cred_call EXCEPT !.resp = resp]
       IN  IF out.exc = None
           THEN /\ auth_file' = save_provider(auth_file, cred_call.p, out.creds)
                /\ store_op' = [store_op EXCEPT
                                   !.op = "refresh", !.id = cred_call.p,
                                   !.rec = out.creds, !.at = now,
                                   !.expires_in = resp.body.expires_in]
                /\ cred_call' = ReturnValue(c, out.creds)
           ELSE /\ cred_call' = AfterRefreshFailure(c, out.exc)
                /\ UNCHANGED <<auth_file, store_op>>
    /\ UNCHANGED <<coordVars, runs, settings_file, cli, pkce, fetch, now, calls, login>>

\* the call has returned and its caller may make the next one; the history
\* keeps auth.json as the call read it
CallAgain ==
    /\ cred_call.pc = "done"
    /\ cred_call' = [NoCall EXCEPT !.file = cred_call.file]
    /\ UNCHANGED <<coordVars, runs, settings_file, cli, pkce, fetch, now, auth_file, store_op, calls, login>>

\* the credentials an interactive login builds from the token response
login_creds(p, body, t, userinfo) ==
    CASE p = ClaudeId ->
            IF \/ body.refresh_token = Missing
               \/ body.access_token = Missing
               \/ body.expires_in = NoExpiresIn
            THEN Raised("KeyError")
            ELSE Returned([EmptyCreds EXCEPT
                              !.type = "oauth",
                              !.refresh = body.refresh_token,
                              !.access = body.access_token,
                              !.expires = ExpiresAt(t, body.expires_in)])
      [] p = CodexId ->
            IF \/ ~Truthy(body.access_token)
               \/ ~Truthy(body.refresh_token)
               \/ body.expires_in = NoExpiresIn
               \/ ~Truthy(ExtractAccountId(body.access_token))
            THEN Raised("RuntimeError")
            ELSE LET email == IF Truthy(body.id_token)
                              THEN ExtractEmail(body.id_token) ELSE None
                 IN  Returned([EmptyCreds EXCEPT
                                  !.type = "oauth",
                                  !.access = body.access_token,
                                  !.refresh = body.refresh_token,
                                  !.expires = ExpiresAt(t, body.expires_in),
                                  !.accountId = ExtractAccountId(body.access_token),
                                  !.email = IF Truthy(email) THEN email ELSE Missing])
      [] p = GeminiId ->
            IF ~Truthy(body.access_token) \/ ~Truthy(body.refresh_token)
            THEN Raised("RuntimeError")
            ELSE Returned([EmptyCreds EXCEPT
                              !.type = "oauth",
                              !.refresh = body.refresh_token,
                              !.access = body.access_token,
                              !.expires = ExpiresAt(t,
                                  IF body.expires_in = NoExpiresIn
                                  THEN 3600 ELSE body.expires_in),
                              !.projectId = "proj1",
                              !.email = userinfo])

MaxLogins == 1

\* interactive_login of provider p (llmeter --login), from the token
\* response on; a login that fails writes nothing
Login(p, body, userinfo) ==
    /\ store_op.n < MaxLogins
    /\ LET out == login_creds(p, body, ClockOf(p), userinfo)
       IN  /\ out.exc = None
           /\ auth_file' = save_provider(auth_file, p, out.creds)
           /\ store_op' = [op |-> "login", id |-> p, rec |-> out.creds,
                           at |-> now, expires_in |-> body.expires_in,
                           n |-> store_op.n + 1]
    /\ UNCHANGED <<coordVars, runs, settings_file, cli, pkce, fetch, now, cred_call, calls, login>>

MaxStoreOps == 2

\* auth.save_provider(provider_id, creds)
SaveProvider(provider_id, creds) ==
    /\ store_op.n < MaxStoreOps
    /\ auth_file' = save_provider(auth_file, provider_id, creds)
    /\ store_op' = [op |-> "save", id |-> provider_id, rec |-> creds,
                    at |-> now, expires_in |-> NoExpiresIn,
                    n |-> store_op.n + 1]
    /\ UNCHANGED <<coordVars, runs, settings_file, cli, pkce, fetch, now, cred_call, calls, login>>

\* auth.clear_provider(provider_id); the history keeps the record deleted
ClearProvider(provider_id) ==
    /\ store_op.n < MaxStoreOps
    /\ auth_file' = clear_provider(auth_file, provider_id)
    /\ store_op' = [op |-> "clear", id |-> provider_id,
                    rec |-> IF provider_id \in DOMAIN load_all(auth_file)
                            THEN load_all(auth_file)[provider_id] ELSE NoCreds,
                    at |-> now, expires_in |-> NoExpiresIn,
                    n |-> store_op.n + 1]
    /\ UNCHANGED <<coordVars, runs, settings_file, cli, pkce, fetch, now, cred_call, calls, login>>

MaxLoads == 2

\* auth.load_provider(provider_id), called on its own
LoadProvider(provider_id) ==
    /\ store_op.n < MaxLoads
    /\ store_op' =
          IF LoadAllRaises(auth_file)
          THEN [op |-> "load-raised", id |-> provider_id, rec |-> NoCreds,
                at |-> now, expires_in |-> NoExpiresIn, n |-> store_op.n + 1]
          ELSE [op |-> "load", id |-> provider_id,
                rec |-> load_provider(auth_file, provider_id),
                at |-> now, expires_in |-> NoExpiresIn, n |-> store_op.n + 1]
    /\ UNCHANGED <<coordVars, runs, settings_file, cli, pkce, fetch, now, auth_file, cred_call, calls, login>>

(***************************************************************************)
(* get_valid_credentials calls of several providers in one event loop      *)
(***************************************************************************)
\* a call that has not been made yet, with the history of its accesses to
\* auth.json:
\*   began   the number of writes made to auth.json before the call loaded
\*           its record
\*   wrote   the position of the call's own write among the writes, 0 if
\*           it has not written
\*   saved   the record the call wrote
NoCallOf == [began |-> 0, wrote |-> 0, saved |-> NoCreds] @@ NoCall

\* the token responses told apart where calls overlap: a failure of the
\* transport, a rejected grant, a grant with and one without a rotated
\* refresh token
OverlapResponses ==
    {[kind |-> "transport", status |-> 0, body |-> EmptyBody],
     [kind |-> "http", status |-> 400, body |-> EmptyBody],
     [kind |-> "http", status |-> 200,
      body |-> [access_token |-> "jwt-acct1", refresh_token |-> "ref1",
                expires_in |-> 3600, id_token |-> Missing]],
     [kind |-> "http", status |-> 200,
      body |-> [access_token |-> "acc1", refresh_token |-> Missing,
                expires_in |-> 3600, id_token |-> Missing]]}

\* variant: the write goes on top of the file as the call read it
save_credentials_FromSnapshot(c, file, creds) ==
    save_provider(c.file, c.p, creds)

\* save_credentials(creds) of the provider of call c: the file after
\* auth.save_provider(PROVIDER_ID, creds)
save_credentials(c, file, creds) == save_provider(file, c.p, creds)

\* get_valid_access_token / get_valid_credentials of provider p, up to its
\* return or to the POST of the refresh grant, other calls being suspended
StartCall(p) ==
    /\ calls[p].pc = "idle"
    /\ LET creds == load_credentials(auth_file, p)
           c == [calls[p] EXCEPT !.p = p, !.creds = creds, !.at = now,
                                 !.file = auth_file, !.began = store_op.n]
       IN  calls' = [calls EXCEPT ![p] =
             IF creds = NoCreds THEN ReturnNone(c)
             ELSE IF ~is_expired(creds, NowMs) THEN ReturnValue(c, creds)
             ELSE IF ~Truthy(Get(creds, "refresh"))
             THEN AfterRefreshFailure(c, "RuntimeError")
             ELSE [c EXCEPT !.pc = "refreshing", !.requested = TRUE]]
    /\ UNCHANGED <<coordVars, runs, settings_file, cli, pkce, fetch, now, auth_file, cred_call, store_op, login>>

\* the POST of provider p's refresh grant is over: refresh_access_token and
\* its caller run to the return, other calls being suspended
CallResponse(p, resp, userinfo) ==
    /\ calls[p].pc = "refreshing"
    /\ LET out == refresh_access_token(p, calls[p].creds, resp, ClockOf(p),
                                       userinfo)
           c == [calls[p] EXCEPT !.resp = resp]
       IN  IF out.exc = None
           THEN /\ auth_file' = save_credentials(c, auth_file, out.creds)
                /\ store_op' = [op |-> "refresh", id |-> p, rec |-> out.creds,
                                at |-> now, expires_in |-> resp.body.expires_in,
                                n |-> store_op.n + 1]
                /\ calls' = [calls EXCEPT ![p] =
                                [ReturnValue(c, out.creds) EXCEPT
                                    !.wrote = store_op.n + 1,
                                    !.saved = out.creds]]
           ELSE /\ calls' = [calls EXCEPT ![p] = AfterRefreshFailure(c, out.exc)]
                /\ UNCHANGED <<auth_file, store_op>>
    /\ UNCHANGED <<coordVars, runs, settings_file, cli, pkce, fetch, now, cred_call, login>>

(***************************************************************************)
(* providers/subscription/*_login.py : interactive_login                   *)
(***************************************************************************)
\* the providers with an interactive OAuth login, and those of them that
\* listen for the redirect on a local port
LoginProviders == {ClaudeId, CodexId, GeminiId}
CallbackProviders == {CodexId, GeminiId}

\* the state value sent in the authorization URL (secrets.token_hex(16) for
\* codex, the PKCE verifier for claude and gemini), and another value
ExpectedState == "s1"
OtherState == "s2"

\* a text the user pastes, by its form:
\*   empty  nothing but white space
\*   code   an authorization code
\*   hash   code#state
\*   url    a redirect URL with the query parameters code and state, either
\*          of which may be missing
EmptyText == [form |-> "empty", code |-> None, state |-> None]

\* the text that is the code c and nothing else
BareCode(c) == [form |-> "code", code |-> c, state |-> None]

Pasted ==
    {EmptyText, BareCode("code1")}
    \cup {[form |-> "hash", code |-> "code1", state |-> st] :
             st \in {ExpectedState, OtherState}}
    \cup {[form |-> "url", code |-> c, state |-> st] :
             c \in {None, "code1"}, st \in {None, ExpectedState, OtherState}}

\* no text
NoText == [form |-> "none", code |-> None, state |-> None]

\* what parsing the pasted text gives: an exception, or the code to exchange
\* and (claude) the state to send along
ParseRaised(exc) == [exc |-> exc, code |-> NoText, state |-> None]
Parsed(code, st) == [exc |-> None, code |-> code, state |-> st]

\* ClaudeLogin.interactive_login, from input() to the payload:
\* parts = raw.split("#"); code = parts[0]; state = parts[1] if there is one
claude_parse(raw) ==
    IF raw.form = "empty" THEN ParseRaised("RuntimeError")
    ELSE IF raw.form = "hash" THEN Parsed(BareCode(raw.code), raw.state)
    ELSE Parsed(raw, None)

\* codex_login._parse_auth_input(raw, expected_state)
codex_parse_auth_input(raw, expected_state) ==
    IF raw.form = "empty" THEN Parsed(NoText, None)
    ELSE IF raw.form = "url" /\ Truthy(raw.state) /\ raw.state # expected_state
    THEN ParseRaised("RuntimeError")
    ELSE IF raw.form = "url" /\ Truthy(raw.code)
    THEN Parsed(BareCode(raw.code), None)
    ELSE IF raw.form = "hash" THEN Parsed(BareCode(raw.code), None)
    ELSE Parsed(raw, None)

\* gemini_login._parse_auth_input(raw, expected_state)
gemini_parse_auth_input(raw, expected_state) ==
    IF raw.form = "empty" THEN Parsed(NoText, None)
    ELSE IF raw.form = "url" /\ Truthy(raw.state) /\ raw.state # expected_state
    THEN ParseRaised("RuntimeError")
    ELSE IF raw.form = "url" /\ Truthy(raw.code)
    THEN Parsed(BareCode(raw.code), None)
    ELSE Parsed(raw, None)

\* interactive_login of provider p from the return of input() to the code
\* it exchanges
parse_input(p, raw) ==
    IF raw.form = "empty" THEN ParseRaised("RuntimeError")
    ELSE LET out == CASE p = ClaudeId -> claude_parse(raw)
                      [] p = CodexId ->
                            codex_parse_auth_input(raw, ExpectedState)
                      [] p = GeminiId ->
                            gemini_parse_auth_input(raw, ExpectedState)
         IN  IF out.exc = None /\ out.code.form \in {"none", "empty"}
             THEN ParseRaised("RuntimeError")
             ELSE out

\* a GET the callback listener receives
Requests ==
    [path : {"callback", "other"}, state : {None, ExpectedState, OtherState},
     code : {None, "code1", "code2"}, error : {None, "denied"}]

NoRequest == [path |-> "none", state |-> None, code |-> None, error |-> None]

\* the attributes of the class _OAuthCallbackHandler a request may change
Handled(received_code, event) ==
    [received_code |-> received_code, event |-> event]

\* variant: the state of the request is not compared
codex_do_GET_NoState(h, req) ==
    IF req.path # "callback" THEN h
    ELSE IF ~Truthy(req.code) THEN h
    ELSE Handled(req.code, TRUE)

\* codex_login._OAuthCallbackHandler.do_GET
codex_do_GET(h, req) ==
    IF req.path # "callback" THEN h
    ELSE IF req.state # ExpectedState THEN h
    ELSE IF ~Truthy(req.code) THEN h
    ELSE Handled(req.code, TRUE)

\* gemini_login._OAuthCallbackHandler.do_GET
gemini_do_GET(h, req) ==
    IF req.path # "callback" THEN h
    ELSE IF Truthy(req.error) THEN Handled(h.received_code, TRUE)
    ELSE IF req.state # ExpectedState \/ ~Truthy(req.code)
    THEN Handled(h.received_code, TRUE)
    ELSE Handled(req.code, TRUE)

do_GET(p, h, req) ==
    IF p = CodexId THEN codex_do_GET(h, req) ELSE gemini_do_GET(h, req)

\* code_event.wait(timeout=...), in ms: 60 s for codex, 120 s for gemini
WaitMs(p) == IF p = CodexId THEN 60 * 1000 ELSE 120 * 1000

\* time that passes between two looks at a waiting login
WaitTickMs == 60 * 1000

\* the token responses of the exchange of the authorization code
ExchangeBodies ==
    [access_token : {Missing, "acc1", "jwt-acct1"},
     refresh_token : {Missing, "ref1"},
     expires_in : {NoExpiresIn, 3600},
     id_token : {Missing}]

ExchangeResponses ==
    {[kind |-> "transport", status |-> 0, body |-> EmptyBody],
     [kind |-> "http", status |-> 400, body |-> EmptyBody]}
    \cup {[kind |-> "http", status |-> 200, body |-> b] : b \in ExchangeBodies}

\* what _discover_project does: it returns a project id or raises
Discoveries == {"proj1", "RuntimeError", "ClientError"}

\* interactive_login of provider p from the token response on: the exception
\* it raises or the credentials it saves
exchange_code(p, resp, t, discovery, userinfo) ==
    IF resp.kind = "transport" \/ resp.status # 200 THEN Raised("RuntimeError")
    ELSE LET out == login_creds(p, resp.body, t, userinfo)
         IN  IF p = GeminiId /\ out.exc = None /\ discovery # "proj1"
             THEN Raised(discovery)
             ELSE out

\* nobody logs in; of an interactive_login call
\*   p              the provider
\*   pc             "waiting": in code_event.wait, "woken": before
\*                  server.shutdown(), "prompt": in input(), "exchange": in
\*                  the POST of the code, "done": returned or raised
\*   server         "none": no listener, "serving": serve_forever runs in
\*                  its thread, "shutdown": server.shutdown() has returned
\*   received_code, event   the attributes of _OAuthCallbackHandler
\*   since          the clock when the wait began
\*   code, state    the code to exchange, the state sent with it
\*   exc            the exception that left the call
\*   saved          the credentials saved
\*   req            history: the latest request served
\*   setter         history: the request whose handling set the event
\*   timedout       history: the wait ended without the event
\*   raw            history: the text pasted
\*   resp           history: the token response
\*   exchanged      history: the code was POSTed to the token endpoint
\*   discovery      history: what _discover_project did (gemini)
\*   file           history: auth.json when the call was made
NoLogin ==
    [p |-> None, pc |-> "idle", server |-> "none", received_code |-> None,
     event |-> FALSE, since |-> 0, code |-> NoText, state |-> None,
     exc |-> None, saved |-> NoCreds, req |-> NoRequest,
     setter |-> NoRequest, timedout |-> FALSE,
     raw |-> NoText, resp |-> NoResponse, exchanged |-> FALSE,
     discovery |-> None, file |-> MissingFile]

LoginUnchanged ==
    UNCHANGED <<coordVars, runs, settings_file, cli, pkce, fetch, now, auth_file, cred_call, store_op, calls>>

\* variant: the login waits for the callback although no listener is bound
StartLogin_WaitsUnbound(p, bindable) ==
    /\ login.pc = "idle"
    /\ login' =
         IF p \in CallbackProviders
         THEN [login EXCEPT !.p = p, !.file = auth_file, !.pc = "waiting",
                            !.server = IF bindable THEN "serving" ELSE "none",
                            !.received_code = None, !.event = FALSE,
                            !.since = now]
         ELSE [login EXCEPT !.p = p, !.file = auth_file, !.pc = "prompt"]
    /\ LoginUnchanged

\* variant: _start_callback_server leaves the attributes of the handler
\* class as the last login left them
StartLogin_KeepsCode(p, bindable) ==
    /\ login.pc = "idle"
    /\ login' =
         IF p \in CallbackProviders /\ bindable
         THEN [login EXCEPT !.p = p, !.file = auth_file, !.pc = "waiting",
                            !.server = "serving", !.since = now]
         ELSE [login EXCEPT !.p = p, !.file = auth_file, !.pc = "prompt"]
    /\ LoginUnchanged

\* interactive_login up to where it first blocks; bindable tells whether
\* HTTPServer(("127.0.0.1", port), ...) can bind the port.
\* _start_callback_server makes a new Event and resets received_code before
\* it binds
StartLogin(p, bindable) ==
    /\ login.pc = "idle"
    /\ login' =
         IF p \in CallbackProviders
         THEN IF bindable
              THEN [login EXCEPT !.p = p, !.file = auth_file,
                                 !.pc = "waiting", !.server = "serving",
                                 !.received_code = None, !.event = FALSE,
                                 !.since = now]
              ELSE [login EXCEPT !.p = p, !.file = auth_file,
                                 !.received_code = None, !.event = FALSE,
                                 !.pc = "prompt"]
         ELSE [login EXCEPT !.p = p, !.file = auth_file, !.pc = "prompt"]
    /\ LoginUnchanged

\* the serving thread handles a GET
DoGet(req) ==
    /\ login.server = "serving"
    /\ LET h == do_GET(login.p, Handled(login.received_code, login.event), req)
       IN  login' = [login EXCEPT !.received_code = h.received_code,
                                  !.event = h.event, !.req = req,
                                  !.setter = IF ~login.event /\ h.event
                                             THEN req ELSE login.setter]
    /\ LoginUnchanged

\* time passes while the login waits for the callback
TickWait ==
    /\ login.pc = "waiting"
    /\ now - login.since < WaitMs(login.p)
    /\ now' = now + WaitTickMs
    /\ UNCHANGED <<coordVars, runs, settings_file, cli, pkce, fetch, auth_file, cred_call, store_op, calls, login>>

\* variant: the wait has no timeout
WaitReturns_NoTimeout ==
    /\ login.pc = "waiting"
    /\ login.event
    /\ login' = [login EXCEPT !.pc = "woken", !.timedout = ~login.event]
    /\ LoginUnchanged

\* code_event.wait(timeout=...) returns: the event is set or the time is up
WaitReturns ==
    /\ login.pc = "waiting"
    /\ login.event \/ now - login.since >= WaitMs(login.p)
    /\ login' = [login EXCEPT !.pc = "woken", !.timedout = ~login.event]
    /\ LoginUnchanged

\* server.shutdown(); code = _OAuthCallbackHandler.received_code
Shutdown ==
    /\ login.pc = "woken"
    /\ login' =
         IF Truthy(login.received_code)
         THEN [login EXCEPT !.server = "shutdown", !.req = NoRequest,
                            !.setter = NoRequest, !.pc = "exchange",
                            !.code = BareCode(login.received_code)]
         ELSE [login EXCEPT !.server = "shutdown", !.req = NoRequest,
                            !.setter = NoRequest, !.pc = "prompt"]
    /\ LoginUnchanged

\* input() returns the text raw
Prompt(raw) ==
    /\ login.pc = "prompt"
    /\ LET out == parse_input(login.p, raw)
       IN  login' =
             IF out.exc # None
             THEN [login EXCEPT !.raw = raw, !.pc = "done", !.exc = out.exc]
             ELSE [login EXCEPT !.raw = raw, !.pc = "exchange",
                                !.code = out.code, !.state = out.state]
    /\ LoginUnchanged

\* the user interrupts the login (Ctrl-C) where it blocks for the callback
\* or for the input
Interrupt ==
    /\ login.pc \in {"waiting", "prompt"}
    /\ login' = [login EXCEPT !.pc = "done", !.exc = "KeyboardInterrupt"]
    /\ LoginUnchanged

\* the token endpoint answers the exchange of the code; interactive_login
\* runs to its end
Exchange(resp, discovery, userinfo) ==
    /\ login.pc = "exchange"
    /\ LET out == exchange_code(login.p, resp, ClockOf(login.p), discovery,
                                userinfo)
           l == [login EXCEPT !.pc = "done", !.resp = resp, !.exchanged = TRUE,
                              !.discovery = IF login.p = GeminiId
                                            THEN discovery ELSE None]
       IN  IF out.exc = None
           THEN /\ auth_file' = save_provider(auth_file, login.p, out.creds)
                /\ store_op' = [op |-> "login", id |-> login.p,
                                rec |-> out.creds, at |-> now,
                                expires_in |-> resp.body.expires_in,
                                n |-> store_op.n + 1]
                /\ login' = [l EXCEPT !.saved = out.creds]
           ELSE /\ login' = [l EXCEPT !.exc = out.exc]
                /\ UNCHANGED <<auth_file, store_op>>
    /\ UNCHANGED <<coordVars, runs, settings_file, cli, pkce, fetch, now, cred_call, calls>>

(***************************************************************************)
(* *_login.py : _generate_pkce                                             *)
(***************************************************************************)
\* the alphabet of base64.urlsafe_b64encode, and its padding character
B64Alphabet ==
    <<"A", "B", "C", "D", "E", "F", "G", "H", "I", "J", "K", "L", "M",
      "N", "O", "P", "Q", "R", "S", "T", "U", "V", "W", "X", "Y", "Z",
      "a", "b", "c", "d", "e", "f", "g", "h", "i", "j", "k", "l", "m",
      "n", "o", "p", "q", "r", "s", "t", "u", "v", "w", "x", "y", "z",
      "0", "1", "2", "3", "4", "5", "6", "7", "8", "9", "-", "_">>
B64Pad == "="

\* the character of a 6-bit value
B64Char(v) == B64Alphabet[v + 1]

\* base64.urlsafe_b64encode(data): three bytes give four characters, a rest
\* of one or two bytes gives two or three characters and padding; the text
\* is a sequence of characters
RECURSIVE urlsafe_b64encode(_)
urlsafe_b64encode(data) ==
    IF Len(data) = 0 THEN <<>>
    ELSE IF Len(data) = 1
    THEN <<B64Char(data[1] \div 4), B64Char((data[1] % 4) * 16), B64Pad, B64Pad>>
    ELSE IF Len(data) = 2
    THEN <<B64Char(data[1] \div 4),
           B64Char((data[1] % 4) * 16 + data[2] \div 16),
           B64Char((data[2] % 16) * 4), B64Pad>>
    ELSE <<B64Char(data[1] \div 4),
           B64Char((data[1] % 4) * 16 + data[2] \div 16),
           B64Char((data[2] % 16) * 4 + data[3] \div 64),
           B64Char(data[3] % 64)>>
         \o urlsafe_b64encode(SubSeq(data, 4, Len(data)))

\* text.rstrip(b"=")
RECURSIVE rstrip(_)
rstrip(text) ==
    IF Len(text) > 0 /\ text[Len(text)] = B64Pad
    THEN rstrip(SubSeq(text, 1, Len(text) - 1))
    ELSE text

\* _base64url_encode(data)
base64url_encode(data) == rstrip(urlsafe_b64encode(data))

\* ord(c) of a character of the alphabet
Ord(c) ==
    LET i == CHOOSE k \in 1..64 : B64Alphabet[k] = c
    IN  IF i <= 26 THEN 64 + i
        ELSE IF i <= 52 THEN 96 + (i - 26)
        ELSE IF i <= 62 THEN 47 + (i - 52)
        ELSE IF i = 63 THEN 45 ELSE 95

\* text.encode("ascii")
encode_ascii(text) == [i \in 1..Len(text) |-> Ord(text[i])]

\* bytes the login flows draw from the operating system's random source:
\* os.urandom(32) in claude and gemini, secrets.token_urlsafe(64) in codex
UrandomBytes == 32
TokenUrlsafeBytes == 64

RandomBytes(p) == IF p = CodexId THEN TokenUrlsafeBytes ELSE UrandomBytes

\* bytes of a SHA-256 digest
Sha256Bytes == 32

\* the model works on sequences of one to three bytes that leave the same
\* rest modulo three as the real ones, so that the padding is the same
Reduced(n) == IF n % 3 = 0 THEN 3 ELSE n % 3

\* the byte values drawn
ByteSample == {0, 1, 62, 63, 127, 128, 251, 255}

\* hashlib.sha256(data).digest(): a checksum of Reduced(Sha256Bytes) bytes
\* over all the bytes of data stands for the digest
RECURSIVE Checksum(_, _, _)
Checksum(data, a, b) ==
    IF Len(data) = 0 THEN <<a, b>>
    ELSE Checksum(Tail(data), (a + Head(data)) % 251,
                  (b + a + Head(data)) % 251)

sha256_digest(data) == SubSeq(Checksum(data, 1, 0), 1, Reduced(Sha256Bytes))

\* the (verifier, challenge) pair
Pkce(verifier, challenge) == [verifier |-> verifier, challenge |-> challenge]

\* variant: the challenge is the digest of the random bytes, not of the
\* verifier text
generate_pkce_HashesBytes(p, random) ==
    Pkce(base64url_encode(random), base64url_encode(sha256_digest(random)))

\* _generate_pkce() of provider p, random being the bytes drawn; codex
\* takes its verifier from secrets.token_urlsafe, which encodes them the
\* same way
generate_pkce(p, random) ==
    LET verifier == IF p = CodexId THEN rstrip(urlsafe_b64encode(random))
                    ELSE base64url_encode(random)
        digest == sha256_digest(encode_ascii(verifier))
    IN  Pkce(verifier, base64url_encode(digest))

\* no pair has been generated
NoPkce ==
    [pc |-> "idle", p |-> None, random |-> <<>>, verifier |-> <<>>,
     challenge |-> <<>>, n |-> 0]

MaxPkce == 2

\* interactive_login of provider p calls _generate_pkce(); the random source
\* hands out bytes
GeneratePkce(p, random) ==
    /\ pkce.pc = "idle"
    /\ pkce.n < MaxPkce
    /\ Len(random) = Reduced(RandomBytes(p))
    /\ LET pair == generate_pkce(p, random)
       IN  pkce' = [pc |-> "done", p |-> p, random |-> random,
                    verifier |-> pair.verifier, challenge |-> pair.challenge,
                    n |-> pkce.n + 1]
    /\ UNCHANGED <<coordVars, runs, settings_file, cli, fetch, now, auth_file, cred_call, store_op,
                   calls, login>>

\* the login command is run again
PkceAgain ==
    /\ pkce.pc = "done"
    /\ pkce' = [NoPkce EXCEPT !.n = pkce.n]
    /\ UNCHANGED <<coordVars, runs, settings_file, cli, fetch, now, auth_file, cred_call, store_op,
                   calls, login>>

(***************************************************************************)
(* providers : the fetch call of a provider                                *)
(***************************************************************************)
\* provider_id of the API-key provider
OpencodeId == "opencode"

\* the providers whose fetch call is followed: by the key of their record in
\* auth.json, the API-key provider by its provider_id
FetchProviders == {CursorKey, CopilotId, ClaudeId, GeminiId, OpencodeId}

\* provider_id of the provider class that reads auth.json under the key
ProviderOf(key) ==
    CASE key = ClaudeId -> "claude"
      [] key = CodexId -> "codex"
      [] key = GeminiId -> "gemini"
      [] key = CopilotId -> "copilot"
      [] key = CursorKey -> "cursor"
      [] key = OpencodeId -> "opencode"

\* cursor.load_credentials()
cursor_load_credentials(file) ==
    LET creds == load_provider(file, CursorKey)
    IN  IF creds # NoCreds /\ Truthy(Get(creds, "cookie")) THEN creds ELSE NoCreds

\* cursor.save_credentials(cookie, email)
cursor_save_credentials(file, cookie, email) ==
    save_provider(file, CursorKey,
                  [EmptyCreds EXCEPT !.type = "cookie", !.cookie = cookie,
                                     !.email = IF Truthy(email) THEN email
                                               ELSE Missing])

\* the error texts of the usage requests
CursorExpired ==
    "Cursor session expired. Run llmeter --login cursor to re-authenticate."
CopilotUnauthorized ==
    "Unauthorized - token may be invalid or revoked. Run llmeter --login copilot to re-authenticate."
CopilotForbidden ==
    "Forbidden - you may not have an active Copilot subscription. Check your GitHub Copilot plan."
ClaudeUnauthorized ==
    "Unauthorized - token may be invalid or expired. Run llmeter --login claude to re-authenticate."
ClaudeForbidden ==
    "Forbidden - token may be missing required scopes. Re-authenticate with llmeter --login claude."
OpencodeExpired ==
    "opencode.ai session expired or invalid. Update api_key in config or OPENCODE_AUTH_COOKIE."

\* the errors= argument of http_get: status -> message
ErrorsOf(p) ==
    CASE p = CursorKey -> [st \in {401, 403} |-> CursorExpired]
      [] p = CopilotId -> (401 :> CopilotUnauthorized @@ 403 :> CopilotForbidden)
      [] p = ClaudeId -> (401 :> ClaudeUnauthorized @@ 403 :> ClaudeForbidden)
      [] p \in {GeminiId, OpencodeId} -> [st \in {} |-> ""]

\* the statuses the usage endpoint answers with
Statuses == {200, 401, 403, 500}

\* the starts of the bodies of its error responses
HttpBodies == {"", "session expired", "Unauthorized"}

StatusText(status) ==
    CASE status = 200 -> "200" [] status = 401 -> "401"
      [] status = 403 -> "403" [] status = 500 -> "500"

\* f"HTTP {resp.status}: {body[:_BODY_PREVIEW]}"
HttpErrorText(status, body) == "HTTP " \o StatusText(status) \o ": " \o body

\* what the usage request comes to: a response, or an exception of the
\* transport (aiohttp.ClientError, asyncio.TimeoutError) whose str() is msg;
\* email is the address /api/auth/me gives for cursor, None if it gives none
\* or fails
HttpOutcomes ==
    [kind : {"response"}, status : {200}, body : {""}, msg : {None},
     email : {None, "e1"}]
    \cup [kind : {"response"}, status : {401, 403}, body : {""},
          msg : {None}, email : {None}]
    \cup [kind : {"response"}, status : {500}, body : HttpBodies,
          msg : {None}, email : {None}]
    \cup [kind : {"transport"}, status : {0}, body : {""}, msg : Messages,
          email : {None}]

\* _http_request: the exception raised, None (with the data) for a 200
HttpRaised(exc, msg) == [exc |-> exc, msg |-> msg]

http_get(errors, out) ==
    IF out.kind = "transport" THEN HttpRaised("ClientError", out.msg)
    ELSE IF out.status \in DOMAIN errors
    THEN HttpRaised("RuntimeError", errors[out.status])
    ELSE IF out.status # 200
    THEN HttpRaised("RuntimeError", HttpErrorText(out.status, out.body))
    ELSE HttpRaised(None, None)

\* word in msg, for the messages above
Contains(msg, word) ==
    \/ msg \in {HttpErrorText(st, word) : st \in Statuses}
    \/ word = "session expired" /\ msg \in {CursorExpired, OpencodeExpired}
    \/ word = "Unauthorized" /\ msg \in {CopilotUnauthorized, ClaudeUnauthorized}

\* the no_api_key_error of the API-key provider
NoApiKeyError ==
    "opencode.ai auth cookie not configured. Set OPENCODE_AUTH_COOKIE env var or add api_key to config."

\* values of settings["api_key"]
KeyValues == {Missing, "", " ", "key0"}

\* values of the environment variable OPENCODE_AUTH_COOKIE
EnvValues == {Missing, "key0"}

\* str.strip() of these values
Strip(v) == IF v = " " THEN "" ELSE v

\* OpencodeProvider.resolve_api_key(settings)
resolve_api_key(setting, env) ==
    LET key == Strip(Or(setting, Or(env, "")))
    IN  IF Truthy(key) THEN key ELSE None

\* no answer to the usage request yet
NoOutcome ==
    [kind |-> "none", status |-> 0, body |-> "", msg |-> None, email |-> None]

\* a fetch call that has not been made; of a call that has been made
\*   p         the provider
\*   pc        "idle", "http" (_fetch awaits the usage request), "done"
\*   creds     what get_credentials returned
\*   error     result.error of the result returned
\*   raised    the exception that left __call__
\*   invoked   history: _fetch sent its request
\*   args      history: settings["api_key"] and the environment variable
\*   out       history: the answer to the usage request
\*   file      history: auth.json when the credentials were loaded
\*   n         history: calls made so far
\*   prev      history: the provider of the call before this one, and
\*             whether the service rejected its credential
NoFetch ==
    [p |-> None, pc |-> "idle", creds |-> NoCreds, error |-> None,
     raised |-> None, invoked |-> FALSE,
     args |-> [setting |-> Missing, env |-> Missing], out |-> NoOutcome,
     file |-> MissingFile, n |-> 0, prev |-> [p |-> None, rejected |-> FALSE]]

\* the service turned down the credential of the call f: cursor's
\* usage-summary answered 401 or 403, copilot's endpoint 401
Rejected(f) ==
    /\ f.out.kind = "response"
    /\ \/ f.p = CursorKey /\ f.out.status \in {401, 403}
       \/ f.p = CopilotId /\ f.out.status = 401

MaxFetches == 2

\* the frame of a new call of provider p, the credentials loaded from file
NewFetch(p, file) ==
    [NoFetch EXCEPT !.p = p, !.file = file, !.n = fetch.n + 1,
                    !.prev = [p |-> fetch.p, rejected |-> Rejected(fetch)]]

\* a call may be made
MayFetch == fetch.pc \in {"idle", "done"} /\ fetch.n < MaxFetches

\* GeminiProvider._fetch: if not access_token
GeminiTokenMissing ==
    "Gemini access token missing. Run llmeter --login gemini to authenticate."

\* variant: _fetch is invoked with the None that get_credentials returned
AfterCredentials_FetchAnyway(f, creds) ==
    [f EXCEPT !.pc = "http", !.creds = creds, !.invoked = TRUE]

\* __call__ after get_credentials: the error result, or _fetch up to its
\* request
AfterCredentials(f, creds) ==
    IF creds = NoCreds
    THEN [f EXCEPT !.pc = "done", !.error = NoCredentialsError(ProviderOf(f.p))]
    ELSE IF f.p = GeminiId /\ ~Truthy(Get(creds, "access"))
    THEN [f EXCEPT !.pc = "done", !.creds = creds, !.error = GeminiTokenMissing]
    ELSE [f EXCEPT !.pc = "http", !.creds = creds, !.invoked = TRUE]

\* fetch_cursor(): CursorProvider.__call__ up to the usage-summary request
CallCursor ==
    /\ MayFetch
    /\ fetch' = IF LoadAllRaises(auth_file)
                THEN [NewFetch(CursorKey, auth_file) EXCEPT
                         !.pc = "done", !.raised = "UnicodeDecodeError"]
                ELSE AfterCredentials(NewFetch(CursorKey, auth_file),
                                      cursor_load_credentials(auth_file))
    /\ UNCHANGED <<coordVars, runs, settings_file, cli, pkce, now, auth_file, cred_call, store_op, calls,
                   login>>

\* the __call__ of a provider whose get_credentials is the get_valid_...
\* call that has just returned
CallToken ==
    /\ MayFetch
    /\ cred_call.pc = "done"
    /\ cred_call.p \in FetchProviders
    /\ LET f == NewFetch(cred_call.p, cred_call.file)
       IN  fetch' =
             CASE cred_call.kind = "raised" ->
                    [f EXCEPT !.pc = "done", !.raised = cred_call.exc]
               [] cred_call.kind = "none" -> AfterCredentials(f, NoCreds)
               [] cred_call.kind = "value" ->
                    AfterCredentials(f,
                        IF cred_call.p \in {CodexId, GeminiId}
                        THEN cred_call.ret
                        ELSE [EmptyCreds EXCEPT !.access = cred_call.access])
    /\ cred_call' = NoCall
    /\ UNCHANGED <<coordVars, runs, settings_file, cli, pkce, now, auth_file, store_op, calls, login>>

\* fetch_opencode_api(settings=...): ApiProvider.__call__ up to the request
CallApi(setting, env) ==
    /\ MayFetch
    /\ LET api_key == resolve_api_key(setting, env)
           f == [NewFetch(OpencodeId, auth_file) EXCEPT
                    !.args = [setting |-> setting, env |-> env]]
       IN  fetch' =
             IF ~Truthy(api_key)
             THEN [f EXCEPT !.pc = "done", !.error = NoApiKeyError]
             ELSE [f EXCEPT !.pc = "http", !.invoked = TRUE,
                            !.creds = [EmptyCreds EXCEPT !.access = api_key]]
    /\ UNCHANGED <<coordVars, runs, settings_file, cli, pkce, now, auth_file, cred_call, store_op, calls,
                   login>>

\* the frame of the call once its request is answered with out
Answered(out) == [fetch EXCEPT !.pc = "done", !.out = out]

\* variant: the session-expired answer is reported and the cookie is kept
CursorResponse_KeepsCookie(out) ==
    LET got == http_get(ErrorsOf(CursorKey), out)
    IN  /\ fetch' = [Answered(out) EXCEPT
                        !.error = IF got.exc = None THEN None ELSE got.msg]
        /\ UNCHANGED auth_file

\* CursorProvider._fetch from the answer of the usage-summary request on
CursorResponse(out) ==
    LET got == http_get(ErrorsOf(CursorKey), out)
        cookie == fetch.creds.cookie
    IN  CASE got.exc = "RuntimeError" ->
               /\ fetch' = [Answered(out) EXCEPT !.error = got.msg]
               /\ auth_file' = IF Contains(got.msg, "session expired")
                               THEN clear_provider(auth_file, CursorKey)
                               ELSE auth_file
          [] got.exc = "ClientError" ->
               /\ fetch' = [Answered(out) EXCEPT
                               !.error = "Cursor API error: " \o got.msg]
               /\ UNCHANGED auth_file
          [] got.exc = None ->
               /\ fetch' = Answered(out)
               /\ auth_file' =
                     IF Truthy(out.email) /\ ~Truthy(Get(fetch.creds, "email"))
                     THEN cursor_save_credentials(auth_file, cookie, out.email)
                     ELSE auth_file

\* CopilotProvider._fetch from the answer of the request on
CopilotResponse(out) ==
    LET got == http_get(ErrorsOf(CopilotId), out)
    IN  CASE got.exc = "RuntimeError" ->
               /\ fetch' = [Answered(out) EXCEPT !.error = got.msg]
               /\ auth_file' = IF Contains(got.msg, "Unauthorized")
                               THEN clear_provider(auth_file, CopilotId)
                               ELSE auth_file
          [] got.exc = "ClientError" ->
               /\ fetch' = [Answered(out) EXCEPT
                               !.error = "Copilot API error: " \o got.msg]
               /\ UNCHANGED auth_file
          [] got.exc = None ->
               /\ fetch' = Answered(out)
               /\ UNCHANGED auth_file

\* f"{name} API error: {e or type(e).__name__}"
ApiErrorText(name, got) ==
    name \o " API error: " \o (IF got.msg = "" THEN got.exc ELSE got.msg)

\* ClaudeProvider._fetch from the answer of the request on: every exception
\* becomes the error of the result
ClaudeResponse(out) ==
    LET got == http_get(ErrorsOf(ClaudeId), out)
    IN  /\ fetch' = [Answered(out) EXCEPT
                        !.error = IF got.exc = None THEN None
                                  ELSE ApiErrorText("Claude", got)]
        /\ UNCHANGED auth_file

\* GeminiProvider._fetch from the answer of the quota request on
GeminiResponse(out) ==
    LET got == http_get(ErrorsOf(GeminiId), out)
    IN  /\ fetch' = [Answered(out) EXCEPT
                        !.error = IF got.exc = None THEN None
                                  ELSE "Gemini API error: " \o got.msg]
        /\ UNCHANGED auth_file

\* OpencodeProvider._fetch from the answer of the request on
OpencodeResponse(out) ==
    /\ fetch' = [Answered(out) EXCEPT
                    !.error =
                       IF out.kind = "transport"
                       THEN "opencode.ai request failed: " \o out.msg
                       ELSE IF out.status \in {401, 403} THEN OpencodeExpired
                       ELSE IF out.status # 200
                       THEN "opencode.ai returned HTTP " \o StatusText(out.status)
                       ELSE None]
    /\ UNCHANGED auth_file

\* the usage request of the call in flight is answered and _fetch returns
FetchResponse(out) ==
    /\ fetch.pc = "http"
    /\ CASE fetch.p = CursorKey -> CursorResponse(out)
         [] fetch.p = CopilotId -> CopilotResponse(out)
         [] fetch.p = ClaudeId -> ClaudeResponse(out)
         [] fetch.p = GeminiId -> GeminiResponse(out)
         [] fetch.p = OpencodeId -> OpencodeResponse(out)
    /\ store_op' = IF auth_file' # auth_file
                   THEN [store_op EXCEPT !.op = "fetch", !.id = fetch.p]
                   ELSE store_op
    /\ UNCHANGED <<coordVars, runs, settings_file, cli, pkce, now, cred_call, calls, login>>

(***************************************************************************)
(* cli/auth.py, config.py : login_provider and enable_provider             *)
(***************************************************************************)
\* the keys of LOGIN_HANDLERS, and a name that is none of them
LoginHandlers == {"claude", "codex", "gemini", "copilot", "cursor"}
UnknownLogin == "nope"

\* the ids of the entries of settings.json in the model
SettingsIds == {"codex", "claude"}

\* the "enabled" field of an entry: true, false, or not there
EnabledValues == {"true", "false", Missing}

\* data["refresh_interval"] when the key is not there, and the value
\* enable_provider writes then
NoInterval == -1
DefaultInterval == 300

\* longest provider list of settings.json
MaxEntries == 2

\* settings.json: not there, not JSON, or a JSON object with its "providers"
\* list and its "refresh_interval"
NoSettings == [state |-> "missing", providers |-> <<>>, interval |-> NoInterval]
CorruptSettings ==
    [state |-> "corrupt", providers |-> <<>>, interval |-> NoInterval]
SettingsFiles ==
    {NoSettings, CorruptSettings}
    \cup [state : {"ok"},
          providers : SeqsUpTo([id : SettingsIds, enabled : EnabledValues],
                               MaxEntries),
          interval : {NoInterval, 60}]

\* the index of the first entry of the list with the id, 0 if there is none
RECURSIVE FirstEntry(_, _, _)
FirstEntry(entries, id, i) ==
    IF i > Len(entries) THEN 0
    ELSE IF entries[i].id = id THEN i
    ELSE FirstEntry(entries, id, i + 1)

\* config.enable_provider(provider_id): settings.json after the call
enable_provider(file, provider_id) ==
    LET data == IF file.state = "ok" THEN file ELSE NoSettings
        i == FirstEntry(data.providers, provider_id, 1)
        entries ==
            IF i = 0
            THEN Append(data.providers, [id |-> provider_id, enabled |-> "true"])
            ELSE [data.providers EXCEPT ![i].enabled = "true"]
    IN  IF i # 0 /\ data.providers[i].enabled \in {"true", Missing}
        THEN file
        ELSE [state |-> "ok",
              providers |-> entries,
              interval |-> IF data.interval = NoInterval
                           THEN DefaultInterval ELSE data.interval]

\* the exceptions an interactive_login raises
LoginExceptions == {"RuntimeError", "KeyboardInterrupt", "KeyError"}

\* how an interactive_login ends: it returns, or an exception leaves it
LoginEnds == {None} \cup LoginExceptions

\* no login_provider call; of a call
\*   pc         "login": inside interactive_login, "done": left
\*   provider   the argument
\*   exc        the exception that left the call
\*   ended      history: how interactive_login ended
\*   before     history: settings.json when the call was made
NoCli ==
    [pc |-> "idle", provider |-> None, exc |-> None, ended |-> "pending",
     before |-> NoSettings]

\* login_provider(provider) up to the call of interactive_login; a name
\* without handler ends the process with sys.exit(2)
LoginProvider(provider) ==
    /\ cli.pc = "idle"
    /\ cli' = IF provider \in LoginHandlers
              THEN [cli EXCEPT !.pc = "login", !.provider = provider,
                               !.before = settings_file]
              ELSE [cli EXCEPT !.pc = "done", !.provider = provider,
                               !.before = settings_file, !.exc = "SystemExit"]
    /\ UNCHANGED <<coordVars, runs, settings_file, now, auth_file, cred_call,
                   store_op, calls, login, fetch, pkce>>

\* variant: the provider is enabled before the login is run
enable_and_login_EnableFirst(file, provider_id, ended) ==
    [file |-> enable_provider(file, provider_id), exc |-> ended]

\* _enable_and_login(provider_id, login_func) from the end of login_func():
\* enable_provider is called when login_func returned
enable_and_login(file, provider_id, ended) ==
    IF ended = None
    THEN [file |-> enable_provider(file, provider_id), exc |-> None]
    ELSE [file |-> file, exc |-> ended]

\* interactive_login ends; the handler and login_provider run to their end
LoginFinishes(ended) ==
    /\ cli.pc = "login"
    /\ LET out == enable_and_login(settings_file, cli.provider, ended)
       IN  /\ settings_file' = out.file
           /\ cli' = [cli EXCEPT !.pc = "done", !.exc = out.exc,
                                 !.ended = IF ended = None THEN "returned"
                                           ELSE ended]
    /\ UNCHANGED <<coordVars, runs, now, auth_file, cred_call, store_op, calls,
                   login, fetch, pkce>>


\* no calls run together and nobody logs in
FlowInert ==
    /\ calls = <<>>
    /\ login = [pc |-> "off"]
    /\ fetch = [pc |-> "off"]
    /\ pkce = [pc |-> "off"]
    /\ settings_file = [state |-> "off"]
    /\ cli = [pc |-> "off"]

\* the credential store is not in use: no auth.json, and no call or write
\* to keep track of
EnvInert ==
    /\ now = StartMs
    /\ auth_file = MissingFile
    /\ cred_call = [pc |-> "off"]
    /\ store_op = [op |-> "off"]
    /\ FlowInert

(***************************************************************************)
(* app.py : the refresh-cycle coordinator                                  *)
(***************************************************************************)
WorkerIds == (1..MaxTriggers) \X (1..MaxProviders)

\* {pcfg.id for pcfg in self._config.providers}
ConfiguredIds == Range(config_providers)

\* provider id a worker was launched for
WorkerProvider(w) == config_providers[w[2]]

\* workers whose fetch_one call has not returned yet
InFlight == {w \in WorkerIds : workers[w] = "fetch"}

\* workers that have not run their finally block yet
Active == {w \in WorkerIds : workers[w] # "none"}

\* for pcfg in self._config.providers: self._fetch_provider(pcfg.id, ...)
Launch(ws, c) ==
    [w \in WorkerIds |->
        IF w[1] = c /\ w[2] \in DOMAIN config_providers THEN "fetch" ELSE ws[w]]

\* _refresh_all, no cycle in progress: start a cycle on top of workers ws
RefreshAllIdle(ws) ==
    /\ refresh_in_progress' = TRUE
    /\ refresh_queued' = FALSE
    /\ pending_provider_ids' = ConfiguredIds
    /\ workers' = Launch(ws, cycles + 1)
    /\ cycles' = cycles + 1

\* variant: the call made during a cycle is dropped instead of queued
RefreshAllBusy_Dropped ==
    /\ UNCHANGED <<refresh_queued, pending_provider_ids, refresh_in_progress,
                   workers, cycles>>

\* variant: the call made during a cycle queues a follow-up and also resets
\* the pending set and launches the fetches again
RefreshAllBusy_Relaunch ==
    /\ refresh_queued' = TRUE
    /\ pending_provider_ids' = ConfiguredIds
    /\ workers' = Launch(workers, cycles + 1)
    /\ UNCHANGED <<refresh_in_progress, cycles>>

\* _refresh_all, a cycle being in progress: only queue a follow-up
RefreshAllBusy ==
    /\ refresh_queued' = TRUE
    /\ UNCHANGED <<pending_provider_ids, refresh_in_progress, workers, cycles>>

\* a call of _refresh_all from on_mount, the interval timer or action_refresh
RefreshAll ==
    /\ trigs < MaxTriggers
    /\ trigs' = trigs + 1
    /\ IF refresh_in_progress
       THEN /\ RefreshAllBusy
            /\ busyTrig' = busyTrig + 1
            /\ UNCHANGED <<owed, followup>>
       ELSE /\ RefreshAllIdle(workers)
            /\ busyTrig' = 0
            /\ owed' = owed + 1
            /\ followup' = FALSE
    /\ UNCHANGED <<config_providers, providers, decisions, runs>>
    /\ UNCHANGED envVars

\* _fetch_provider up to its first suspension after fetch_one has returned:
\* the result is recorded in self._providers
FetchReturns(w, b) ==
    /\ workers[w] = "fetch"
    /\ LET r == FetchOne(WorkerProvider(w), b)
       IN  providers' = [providers EXCEPT ![WorkerProvider(w)] = r.value]
    /\ workers' = [workers EXCEPT ![w] = "card"]
    /\ UNCHANGED <<config_providers, pending_provider_ids, refresh_in_progress,
                   refresh_queued, cycles, trigs, busyTrig, owed, decisions,
                   followup, runs>>
    /\ UNCHANGED envVars

\* variant: the end-of-cycle block forgets the queued follow-up
Finally_NoRestart(w) ==
    LET left == pending_provider_ids \ {WorkerProvider(w)}
        ws == [workers EXCEPT ![w] = "none"]
    IN  /\ pending_provider_ids' = left
        /\ workers' = ws
        /\ refresh_in_progress' = IF left = {} THEN FALSE ELSE refresh_in_progress
        /\ refresh_queued' = IF left = {} THEN FALSE ELSE refresh_queued
        /\ decisions' = IF left = {} THEN decisions + 1 ELSE decisions
        /\ owed' = IF left = {} /\ busyTrig >= 1 THEN owed + 1 ELSE owed
        /\ busyTrig' = IF left = {} THEN 0 ELSE busyTrig
        /\ UNCHANGED <<cycles, followup>>

\* variant: the end-of-cycle block ends the cycle and leaves the queued flag
\* set instead of serving it
Finally_KeepsQueued(w) ==
    LET left == pending_provider_ids \ {WorkerProvider(w)}
        ws == [workers EXCEPT ![w] = "none"]
    IN  /\ pending_provider_ids' = left
        /\ workers' = ws
        /\ refresh_in_progress' = IF left = {} THEN FALSE ELSE refresh_in_progress
        /\ decisions' = IF left = {} THEN decisions + 1 ELSE decisions
        /\ owed' = IF left = {} /\ busyTrig >= 1 THEN owed + 1 ELSE owed
        /\ busyTrig' = IF left = {} THEN 0 ELSE busyTrig
        /\ UNCHANGED <<refresh_queued, cycles, followup>>

\* the finally block of _fetch_provider, run by worker w
Finally(w) ==
    LET left == pending_provider_ids \ {WorkerProvider(w)}
        ws == [workers EXCEPT ![w] = "none"]
    IN  IF left = {}
        THEN \* if not self._pending_provider_ids:
             /\ decisions' = decisions + 1
             /\ owed' = IF busyTrig >= 1 THEN owed + 1 ELSE owed
             /\ busyTrig' = 0
             /\ IF refresh_queued
                THEN /\ RefreshAllIdle(ws)
                     /\ followup' = TRUE
                ELSE /\ refresh_in_progress' = FALSE
                     /\ pending_provider_ids' = left
                     /\ workers' = ws
                     /\ UNCHANGED <<refresh_queued, cycles, followup>>
        ELSE /\ pending_provider_ids' = left
             /\ workers' = ws
             /\ UNCHANGED <<refresh_in_progress, refresh_queued, cycles,
                            busyTrig, owed, decisions, followup>>

\* a worker finishes: the card has been replaced and the finally block runs
Finish(w) ==
    /\ workers[w] = "card"
    /\ Finally(w)
    /\ UNCHANGED <<config_providers, providers, trigs, runs>>
    /\ UNCHANGED envVars

\* the keys of self._providers: the providers a result is held for
Loaded == {id \in DOMAIN providers : providers[id] # NoResult}

\* _update_status(message): the parts of the subtitle after the version and
\* the interval
\*   head           "message", "Loading" (loaded/total) or "Last" (the time)
\*   loaded, total  the numbers of "Loading loaded/total"
\*   ok, err        the numbers of "ok ok, err err", 0 if not shown
update_status(message) ==
    IF Truthy(message) /\ Loaded = {}
    THEN [head |-> "message", loaded |-> 0, total |-> 0, ok |-> 0, err |-> 0]
    ELSE LET loaded == Cardinality(Loaded)
             total == Len(config_providers)
         IN  [head |-> IF loaded < total THEN "Loading" ELSE "Last",
              loaded |-> loaded,
              total |-> total,
              ok |-> Cardinality({id \in Loaded : ~Truthy(providers[id].error)}),
              err |-> Cardinality({id \in Loaded : Truthy(providers[id].error)})]

InitCoord ==
    /\ config_providers \in SeqsUpTo(Registered, MaxProviders)
    /\ pending_provider_ids = {}
    /\ refresh_in_progress = FALSE
    /\ refresh_queued = FALSE
    /\ providers = [id \in Registered |-> NoResult]
    /\ workers = [w \in WorkerIds |-> "none"]
    /\ cycles = 0
    /\ trigs = 0
    /\ busyTrig = 0
    /\ owed = 0
    /\ decisions = 0
    /\ followup = FALSE

Init ==
    /\ InitCoord
    /\ runs = <<>>
    /\ EnvInert

Next ==
    \/ RefreshAll
    \/ \E w \in WorkerIds, b \in DashboardBehaviours : FetchReturns(w, b)
    \/ \E w \in WorkerIds : Finish(w)

Spec == Init /\ [][Next]_vars

\* every launched fetch eventually returns and its worker eventually finishes
FairSpec ==
    /\ Spec
    /\ \A w \in WorkerIds :
          /\ WF_vars(\E b \in DashboardBehaviours : FetchReturns(w, b))
          /\ WF_vars(Finish(w))

(***************************************************************************)
(* backend.py : fetch_all                                                  *)
(***************************************************************************)
\* behaviour of the fetch function fetch_one resolves for an id; an id without
\* a registered fetch function has none to invoke
BehaviourOf(behav, provider_id) ==
    IF provider_id \in Registered
    THEN behav[provider_id]
    ELSE [kind |-> "unregistered", msg |-> None]

\* a fetch_all call that has built its tasks and awaits asyncio.gather:
\*   ids      the provider_ids argument
\*   behav    what each registered fetch function does during this call
\*   results  result of the i-th task, once it is done
\*   order    indexes of the tasks that are done, in completion order
\*   pc       "gather" while awaiting, "returned", or "raised" when an
\*            exception left the call
\*   ret      the list returned
NewCall(ids, behav) ==
    [ids |-> ids, behav |-> behav,
     results |-> [i \in DOMAIN ids |-> NoResult],
     order |-> <<>>, pc |-> "gather", ret |-> <<>>]

\* variant: the results are collected in completion order
Gather_AsCompleted(call) ==
    [k \in DOMAIN call.order |-> call.results[call.order[k]]]

\* list(await asyncio.gather(*tasks)): the results, by position of the task
Gather(call) ==
    [i \in DOMAIN call.ids |-> call.results[i]]

\* the i-th task (fetch_one for ids[i]) runs to completion
TaskDone(r, i) ==
    /\ runs[r].pc = "gather"
    /\ i \in DOMAIN runs[r].ids
    /\ i \notin Range(runs[r].order)
    /\ LET call == runs[r]
           id == call.ids[i]
           out == FetchOne(id, BehaviourOf(call.behav, id))
       IN  runs' = [runs EXCEPT ![r] =
                IF out.raised
                THEN \* gather hands the first exception to its awaiter
                     [call EXCEPT !.pc = "raised"]
                ELSE [call EXCEPT !.results[i] = out.value,
                                  !.order = Append(call.order, i)]]
    /\ UNCHANGED <<coordVars, envVars>>

\* every task is done: gather returns and fetch_all returns the list
GatherReturn(r) ==
    /\ runs[r].pc = "gather"
    /\ Range(runs[r].order) = DOMAIN runs[r].ids
    /\ runs' = [runs EXCEPT ![r] =
                    [runs[r] EXCEPT !.pc = "returned", !.ret = Gather(runs[r])]]
    /\ UNCHANGED <<coordVars, envVars>>

\* the dashboard is not running
CoordInert ==
    /\ InitCoord
    /\ config_providers = <<>>

\* one call of fetch_all, over every id list and every provider behaviour
InitFetch ==
    /\ CoordInert
    /\ EnvInert
    /\ \E ids \in SeqsUpTo(AllIds, MaxIds), behav \in [Registered -> Behaviours] :
          runs = [r \in {1} |-> NewCall(ids, behav)]

\* two calls of fetch_all that differ only in how one provider behaves
InitIso ==
    /\ CoordInert
    /\ EnvInert
    /\ \E ids \in SeqsUpTo(AllIds, MaxIsoIds),
          behav \in [Registered -> Behaviours],
          varied \in Registered, other \in Behaviours :
          runs = [r \in {1, 2} |->
                    IF r = 1 THEN NewCall(ids, behav)
                    ELSE NewCall(ids, [behav EXCEPT ![varied] = other])]

NextFetch ==
    \/ \E r \in DOMAIN runs, i \in 1..(MaxIds + MaxIsoIds) : TaskDone(r, i)
    \/ \E r \in DOMAIN runs : GatherReturn(r)

SpecFetch == InitFetch /\ [][NextFetch]_vars

SpecIso == InitIso /\ [][NextFetch]_vars

\* a call of fetch_all while time passes
NextTimeout ==
    \/ \E r \in DOMAIN runs, i \in 1..MaxIds : TaskDone(r, i)
    \/ \E r \in DOMAIN runs : GatherReturn(r)
    \/ Tick

SpecTimeout == InitFetch /\ [][NextTimeout]_vars

(***************************************************************************)
(* get_valid_credentials over the credential store                         *)
(***************************************************************************)
\* the oauth records auth.json may hold for a provider
OAuthRecords ==
    {[EmptyCreds EXCEPT !.type = "oauth", !.access = a, !.refresh = r,
                        !.expires = e, !.accountId = acct, !.projectId = proj,
                        !.email = em, !.foreign = x] :
        a \in {Missing, "", "acc0"}, r \in {Missing, "ref0"},
        e \in {NoExpires, StartMs - 1000, StartMs + TickMs},
        acct \in {Missing, "acct0"}, proj \in {Missing, "proj0"},
        em \in {Missing, "e0"}, x \in {Missing, "x0"}}

\* the record cursor.save_credentials writes
CursorCreds == [EmptyCreds EXCEPT !.type = "cookie", !.cookie = "c0"]

\* auth.json is missing, or holds cursor's cookie and at most one oauth record
InitAuth ==
    /\ CoordInert
    /\ runs = <<>>
    /\ now = StartMs
    /\ cred_call = NoCall
    /\ store_op = NoOp
    /\ FlowInert
    /\ \/ auth_file = MissingFile
       \/ auth_file = save_all([k \in {CursorKey} |-> CursorCreds])
       \/ \E p \in OAuthReaders, rec \in OAuthRecords :
             auth_file = save_all([k \in {CursorKey, p} |->
                                      IF k = p THEN rec ELSE CursorCreds])

NextAuth ==
    \/ \E p \in OAuthReaders : GetValid(p)
    \/ \E resp \in Responses, userinfo \in UserinfoEmails :
          RefreshResponse(resp, userinfo)
    \/ Tick

SpecAuth == InitAuth /\ [][NextAuth]_vars

\* nobody has logged in yet
InitLogin ==
    /\ CoordInert
    /\ runs = <<>>
    /\ now = StartMs
    /\ cred_call = NoCall
    /\ store_op = NoOp
    /\ FlowInert
    /\ \/ auth_file = MissingFile
       \/ auth_file = save_all([k \in {CursorKey} |-> CursorCreds])

\* logins, and a get_valid_credentials call before, between or after them
NextLogin ==
    \/ \E p \in OAuthProviders, body \in LoginBodies, userinfo \in UserinfoEmails :
          Login(p, body, userinfo)
    \/ \E p \in OAuthReaders : GetValid(p)
    \/ \E resp \in Responses, userinfo \in UserinfoEmails :
          RefreshResponse(resp, userinfo)
    \/ Tick

SpecLogin == InitLogin /\ [][NextLogin]_vars

(***************************************************************************)
(* llmeter --login                                                         *)
(***************************************************************************)
\* the record a provider holds from an earlier login
OldRecord ==
    [EmptyCreds EXCEPT !.type = "oauth", !.access = "acc0", !.refresh = "ref0",
                       !.expires = StartMs - 1000, !.accountId = "acct0",
                       !.projectId = "proj0", !.email = "e0"]

\* auth.json is missing or holds a record of every provider; the login has
\* not been started
InitFlow ==
    /\ CoordInert
    /\ runs = <<>>
    /\ now = StartMs
    /\ cred_call = [pc |-> "off"]
    /\ store_op = NoOp
    /\ calls = <<>>
    /\ login = NoLogin
    /\ fetch = [pc |-> "off"]
    /\ pkce = [pc |-> "off"]
    /\ settings_file = [state |-> "off"]
    /\ cli = [pc |-> "off"]
    /\ \/ auth_file = MissingFile
       \/ auth_file = save_all([k \in LoginProviders |-> OldRecord])

NextFlow ==
    \/ \E p \in LoginProviders, bindable \in BOOLEAN : StartLogin(p, bindable)
    \/ \E req \in Requests : DoGet(req)
    \/ TickWait
    \/ WaitReturns
    \/ Shutdown
    \/ \E raw \in Pasted : Prompt(raw)
    \/ Interrupt
    \/ \E resp \in ExchangeResponses, discovery \in Discoveries,
          userinfo \in UserinfoEmails : Exchange(resp, discovery, userinfo)

SpecFlow == InitFlow /\ [][NextFlow]_vars

\* the code an earlier login of this process received
LeftoverCode == "code0"

\* a login is started in a process where an earlier login may have left its
\* code and its event in the attributes of the handler class
InitHandover ==
    /\ CoordInert
    /\ runs = <<>>
    /\ now = StartMs
    /\ cred_call = [pc |-> "off"]
    /\ store_op = NoOp
    /\ calls = <<>>
    /\ \E left \in {None, LeftoverCode} :
          login = [NoLogin EXCEPT !.received_code = left,
                                  !.event = (left # None)]
    /\ fetch = [pc |-> "off"]
    /\ pkce = [pc |-> "off"]
    /\ settings_file = [state |-> "off"]
    /\ cli = [pc |-> "off"]
    /\ auth_file = MissingFile

SpecHandover == InitHandover /\ [][NextFlow]_vars

\* time passes, and code_event.wait returns when it can
FairSpecFlow ==
    /\ SpecFlow
    /\ WF_vars(TickWait)
    /\ WF_vars(WaitReturns)

(***************************************************************************)
(* a credential file that is corrupt                                       *)
(***************************************************************************)
\* auth.json is corrupt; no call has been made
InitCorrupt ==
    /\ CoordInert
    /\ runs = <<>>
    /\ now = StartMs
    /\ cred_call = NoCall
    /\ store_op = NoOp
    /\ FlowInert
    /\ auth_file \in CorruptFiles

NextCorrupt ==
    \/ \E id \in AuthIds : LoadProvider(id)
    \/ \E p \in OAuthReaders : GetValid(p)
    \/ Tick

SpecCorrupt == InitCorrupt /\ [][NextCorrupt]_vars

(***************************************************************************)
(* overlapping refreshes                                                   *)
(***************************************************************************)
\* the records the providers hold before the calls: one that has expired and
\* one that expires when the clock ticks
OverlapRecords ==
    {[EmptyCreds EXCEPT !.type = "oauth", !.access = "acc0", !.refresh = "ref0",
                        !.expires = e, !.accountId = "acct0",
                        !.projectId = "proj0", !.email = "e0"] :
        e \in {StartMs - 1000, StartMs + TickMs}}

\* every refreshing provider is logged in; fetch_all has not called any yet
InitOverlap ==
    /\ CoordInert
    /\ runs = <<>>
    /\ now = StartMs
    /\ cred_call = NoCall
    /\ store_op = NoOp
    /\ login = [pc |-> "off"]
    /\ fetch = [pc |-> "off"]
    /\ pkce = [pc |-> "off"]
    /\ settings_file = [state |-> "off"]
    /\ cli = [pc |-> "off"]
    /\ calls = [p \in OAuthProviders |-> NoCallOf]
    /\ \E data \in [OAuthProviders -> OverlapRecords] :
          auth_file = save_all(data)

NextOverlap ==
    \/ \E p \in OAuthProviders : StartCall(p)
    \/ \E p \in OAuthProviders, resp \in OverlapResponses,
          userinfo \in UserinfoEmails : CallResponse(p, resp, userinfo)
    \/ Tick

SpecOverlap == InitOverlap /\ [][NextOverlap]_vars

(***************************************************************************)
(* save_provider, clear_provider and load_provider                         *)
(***************************************************************************)
MaxStored == 2

\* the provider ids the calls are about
StoreIds == {CursorKey, CopilotId, ClaudeId}

\* records of each scheme
StoreRecords ==
    {CursorCreds,
     [EmptyCreds EXCEPT !.type = "oauth", !.access = "acc0"],
     [EmptyCreds EXCEPT !.type = "oauth", !.access = "acc0", !.refresh = "ref0",
                        !.expires = StartMs],
     [EmptyCreds EXCEPT !.type = "api_key", !.access = "key0"]}

\* auth.json is missing, corrupt, or holds at most MaxStored records
InitStore ==
    /\ CoordInert
    /\ runs = <<>>
    /\ now = StartMs
    /\ cred_call = NoCall
    /\ store_op = NoOp
    /\ FlowInert
    /\ \/ auth_file \in {MissingFile, CorruptFile}
       \/ \E ids \in SUBSET StoreIds :
             /\ Cardinality(ids) <= MaxStored
             /\ \E data \in [ids -> StoreRecords] : auth_file = save_all(data)

NextStore ==
    \/ \E id \in StoreIds, creds \in StoreRecords : SaveProvider(id, creds)
    \/ \E id \in StoreIds : ClearProvider(id)

SpecStore == InitStore /\ [][NextStore]_vars

(***************************************************************************)
(* fetch calls of the providers over the credential store                  *)
(***************************************************************************)
\* the keys of auth.json the fetch calls read
FetchKeys == FetchProviders \ {OpencodeId}

\* the cookie record, an expired oauth record and an unexpired oauth record
\* whose access token is empty
FetchRecords ==
    {CursorCreds,
     [EmptyCreds EXCEPT !.type = "oauth", !.access = "acc0", !.refresh = "ref0",
                        !.expires = StartMs],
     [EmptyCreds EXCEPT !.type = "oauth", !.access = "",
                        !.expires = StartMs + TickMs]}

\* auth.json is missing, corrupt, or holds at most MaxStored records; no
\* fetch has been made
InitProvider ==
    /\ CoordInert
    /\ runs = <<>>
    /\ now = StartMs
    /\ cred_call = NoCall
    /\ store_op = NoOp
    /\ calls = <<>>
    /\ login = [pc |-> "off"]
    /\ fetch = NoFetch
    /\ pkce = [pc |-> "off"]
    /\ settings_file = [state |-> "off"]
    /\ cli = [pc |-> "off"]
    /\ \/ auth_file \in {MissingFile, CorruptFile}
       \/ \E ids \in SUBSET FetchKeys :
             /\ Cardinality(ids) <= MaxStored
             /\ \E data \in [ids -> FetchRecords] : auth_file = save_all(data)

\* one provider is fetched after the other; a token provider's call starts
\* with its get_valid_... call
NextProvider ==
    \/ cred_call.pc = "idle" /\ CallCursor
    \/ \E p \in FetchKeys \ {CursorKey} : MayFetch /\ GetValid(p)
    \/ \E resp \in OverlapResponses : RefreshResponse(resp, None)
    \/ CallToken
    \/ \E setting \in KeyValues, env \in EnvValues :
          cred_call.pc = "idle" /\ CallApi(setting, env)
    \/ \E out \in HttpOutcomes : FetchResponse(out)

SpecProvider == InitProvider /\ [][NextProvider]_vars

(***************************************************************************)
(* get_valid_credentials calls between writes to the credential store      *)
(***************************************************************************)
\* the providers whose calls and records are followed
CacheIds == {ClaudeId, GeminiId, CopilotId}

\* auth.json is missing, corrupt, or holds at most MaxStored records
InitCache ==
    /\ CoordInert
    /\ runs = <<>>
    /\ now = StartMs
    /\ cred_call = NoCall
    /\ store_op = NoOp
    /\ FlowInert
    /\ \/ auth_file \in {MissingFile, CorruptFile}
       \/ \E ids \in SUBSET CacheIds :
             /\ Cardinality(ids) <= MaxStored
             /\ \E data \in [ids -> StoreRecords] : auth_file = save_all(data)

\* records are saved and cleared between the calls of one process
NextCache ==
    \/ \E id \in CacheIds, creds \in StoreRecords : SaveProvider(id, creds)
    \/ \E id \in CacheIds : ClearProvider(id)
    \/ \E p \in CacheIds : GetValid(p)
    \/ \E resp \in OverlapResponses : RefreshResponse(resp, None)
    \/ CallAgain

SpecCache == InitCache /\ [][NextCache]_vars

(***************************************************************************)
(* _generate_pkce of the login flows                                       *)
(***************************************************************************)
InitPkce ==
    /\ CoordInert
    /\ runs = <<>>
    /\ now = StartMs
    /\ auth_file = MissingFile
    /\ cred_call = [pc |-> "off"]
    /\ store_op = [op |-> "off"]
    /\ calls = <<>>
    /\ login = [pc |-> "off"]
    /\ fetch = [pc |-> "off"]
    /\ pkce = NoPkce
    /\ settings_file = [state |-> "off"]
    /\ cli = [pc |-> "off"]

NextPkce ==
    \/ \E p \in LoginProviders, random \in SeqsUpTo(ByteSample, 2) :
          GeneratePkce(p, random)
    \/ PkceAgain

SpecPkce == InitPkce /\ [][NextPkce]_vars

\* the command line before login_provider is called, over the settings
\* files
InitCli ==
    /\ CoordInert
    /\ runs = <<>>
    /\ now = StartMs
    /\ auth_file = MissingFile
    /\ cred_call = [pc |-> "off"]
    /\ store_op = [op |-> "off"]
    /\ calls = <<>>
    /\ login = [pc |-> "off"]
    /\ fetch = [pc |-> "off"]
    /\ pkce = [pc |-> "off"]
    /\ settings_file \in SettingsFiles
    /\ cli = NoCli

NextCli ==
    \/ \E provider \in LoginHandlers \cup {UnknownLogin} :
          LoginProvider(provider)
    \/ \E ended \in LoginEnds : LoginFinishes(ended)

SpecCli == InitCli /\ [][NextCli]_vars

(***************************************************************************)
(* app.py, providers : the token calls of the dashboard's fetch workers    *)
(***************************************************************************)
\* the token provider behind a configured id
TokenProviderOf(id) == IF id = "codex" THEN CodexId ELSE ClaudeId

\* the provider whose token worker w asks for
WorkerToken(w) == TokenProviderOf(WorkerProvider(w))

\* fetch_one of worker w reaches get_valid_access_token: the record is
\* loaded, and the call returns or is suspended at the POST of the refresh
\* grant
WorkerLoads(w) ==
    /\ workers[w] = "fetch"
    /\ calls[w].pc = "idle"
    /\ LET p == WorkerToken(w)
           creds == load_credentials(auth_file, p)
           c == [calls[w] EXCEPT !.p = p, !.creds = creds, !.at = now,
                                 !.file = auth_file, !.began = store_op.n]
       IN  calls' = [calls EXCEPT ![w] =
             IF creds = NoCreds THEN ReturnNone(c)
             ELSE IF ~is_expired(creds, NowMs) THEN ReturnValue(c, creds)
             ELSE IF ~Truthy(Get(creds, "refresh"))
             THEN AfterRefreshFailure(c, "RuntimeError")
             ELSE [c EXCEPT !.pc = "refreshing", !.requested = TRUE]]
    /\ UNCHANGED <<coordVars, runs, settings_file, cli, pkce, fetch, now, auth_file, cred_call,
                   store_op, login>>

\* the POST of worker w's refresh grant is over: the refreshed record is
\* saved and get_valid_access_token returns
WorkerResponse(w, resp) ==
    /\ workers[w] = "fetch"
    /\ calls[w].pc = "refreshing"
    /\ LET p == WorkerToken(w)
           out == refresh_access_token(p, calls[w].creds, resp, ClockOf(p),
                                       None)
           c == [calls[w] EXCEPT !.resp = resp]
       IN  IF out.exc = None
           THEN /\ auth_file' = save_credentials(c, auth_file, out.creds)
                /\ store_op' = [op |-> "refresh", id |-> p, rec |-> out.creds,
                                at |-> now, expires_in |-> resp.body.expires_in,
                                n |-> store_op.n + 1]
                /\ calls' = [calls EXCEPT ![w] =
                                [ReturnValue(c, out.creds) EXCEPT
                                    !.wrote = store_op.n + 1,
                                    !.saved = out.creds]]
           ELSE /\ calls' = [calls EXCEPT ![w] = AfterRefreshFailure(c, out.exc)]
                /\ UNCHANGED <<auth_file, store_op>>
    /\ UNCHANGED <<coordVars, runs, settings_file, cli, pkce, fetch, now, cred_call, login>>

\* what the provider's fetch makes of the token call's end: the
\* no-credentials error for None, the exception that left the call, and usage
\* data for a token
TokenBehaviour(c) ==
    CASE c.kind = "none" -> [kind |-> "nocreds", msg |-> None]
      [] c.kind = "raised" -> [kind |-> "raise", msg |-> "boom"]
      [] OTHER -> [kind |-> "ok", msg |-> None]

\* the token responses told apart in the dashboard: a failure of the
\* transport and a grant with a rotated refresh token
DashboardResponses ==
    {resp \in OverlapResponses :
        \/ resp.kind = "transport"
        \/ resp.status = 200 /\ resp.body.refresh_token # Missing}

\* fetch_one of worker w returns once its token call has
WorkerFetchReturns(w) ==
    /\ calls[w].pc = "done"
    /\ FetchReturns(w, TokenBehaviour(calls[w]))

\* the dashboard before on_mount: codex and claude are logged in with a
\* token that has expired, and no worker has been launched
InitDashboard ==
    /\ InitCoord
    /\ runs = <<>>
    /\ now = StartMs
    /\ cred_call = [pc |-> "off"]
    /\ store_op = NoOp
    /\ login = [pc |-> "off"]
    /\ fetch = [pc |-> "off"]
    /\ pkce = [pc |-> "off"]
    /\ settings_file = [state |-> "off"]
    /\ cli = [pc |-> "off"]
    /\ calls = [w \in WorkerIds |-> NoCallOf]
    /\ auth_file = save_all([p \in OAuthProviders |->
                                CHOOSE r \in OverlapRecords :
                                    r.expires < StartMs])

NextDashboard ==
    \/ RefreshAll
    \/ \E w \in WorkerIds : WorkerLoads(w)
    \/ \E w \in WorkerIds, resp \in DashboardResponses : WorkerResponse(w, resp)
    \/ \E w \in WorkerIds : WorkerFetchReturns(w)
    \/ \E w \in WorkerIds : Finish(w)

SpecDashboard == InitDashboard /\ [][NextDashboard]_vars

(***************************************************************************)
(* Properties of the refresh-cycle coordinator.                            *)
(***************************************************************************)
\* the coordinator is Idle
Idle == ~refresh_in_progress /\ pending_provider_ids = {}

\* fetches in flight for one provider id
InFlightFor(id) == {w \in InFlight : WorkerProvider(w) = id}

\* C1: at most one fetch per provider id is in flight, so the fetches in
\* flight never outnumber the configured providers.
C1_OneFetchPerProvider ==
    /\ \A id \in Registered : Cardinality(InFlightFor(id)) <= 1
    /\ Cardinality(InFlight) <= Len(config_providers)

\* C2: the calls made while a cycle is in progress are coalesced: each call
\* made while Idle accounts for one cycle, each cycle that ended having
\* absorbed n >= 1 calls accounts for exactly one follow-up cycle, and no other
\* cycle is ever started (three calls absorbed: 2 cycles, not 4).
C2_OneFollowup == cycles = owed

\* three calls, the last two absorbed by the first cycle, and two cycles in
\* all, the second one the follow-up, have run to their end
C2_Witness == trigs = 3 /\ cycles = 2 /\ followup /\ Idle

\* C3: a call of _refresh_all while a cycle is in progress sets the queued
\* flag and changes neither the pending set, the in-progress flag nor the
\* workers (nothing is launched).
C3_BusyCallOnlyQueues ==
    [][(trigs' # trigs /\ refresh_in_progress) =>
          /\ refresh_queued' = TRUE
          /\ UNCHANGED <<pending_provider_ids, refresh_in_progress, workers,
                         cycles, providers>>]_vars

\* a call was absorbed while fetches were outstanding
C3_Witness ==
    refresh_in_progress /\ refresh_queued /\ busyTrig >= 1 /\ InFlight # {}

C5_DecisionOnce ==
    decisions = cycles - (IF refresh_in_progress THEN 1 ELSE 0)

\* C6: every call of _refresh_all is followed by a cycle starting at or after
\* it (a queued follow-up is eventually started) and the coordinator
\* eventually stays Idle once the calls have stopped.
C6_EventuallyServed ==
    /\ refresh_queued ~> ~refresh_queued
    /\ <>[](~refresh_in_progress)

\* C7: with no provider configured the coordinator is Idle after _refresh_all.
C7_NoProvidersIdle ==
    (config_providers = <<>> /\ trigs >= 1) => Idle

(***************************************************************************)
(* Properties of fetch_one and fetch_all.                                  *)
(***************************************************************************)
\* the tasks of a call that are done
Done(call) == Range(call.order)

\* the fetch function of the i-th id raised during this call
Raises(call, i) ==
    /\ call.ids[i] \in Registered
    /\ call.behav[call.ids[i]].kind = "raise"

\* C8: no failure leaves fetch_one: when the fetch function of a registered
\* provider raises, fetch_one returns an error result whose provider_id is the
\* requested id and whose error is the message of the exception.
C8_FetchOneCatches ==
    \A r \in DOMAIN runs :
        /\ runs[r].pc # "raised"
        /\ \A i \in Done(runs[r]) :
              Raises(runs[r], i) =>
                 /\ runs[r].results[i].provider_id = runs[r].ids[i]
                 /\ runs[r].results[i].error # None
                 /\ runs[r].results[i].error = runs[r].behav[runs[r].ids[i]].msg

\* a fetch function raised "boom" and its task is done
C8_Witness ==
    \E r \in DOMAIN runs : \E i \in Done(runs[r]) :
        /\ Raises(runs[r], i)
        /\ runs[r].behav[runs[r].ids[i]].msg = "boom"

\* what the result for id must say, given the behaviour of its fetch function
ExpectedError(call, i) ==
    LET id == call.ids[i]
    IN  IF id \notin Registered THEN "Unknown provider: " \o id
        ELSE IF call.behav[id].kind = "ok" THEN None
        ELSE IF call.behav[id].kind = "nocreds" THEN NoCredentialsError(id)
        ELSE call.behav[id].msg

\* C9: fetch_all returns one result per element of ids, the i-th result being
\* the one of the i-th id, whatever the completion order.
C9_InputOrder ==
    \A r \in DOMAIN runs :
        runs[r].pc = "returned" =>
            /\ Len(runs[r].ret) = Len(runs[r].ids)
            /\ \A i \in DOMAIN runs[r].ids :
                  /\ runs[r].ret[i].provider_id = runs[r].ids[i]
                  /\ runs[r].ret[i].error = ExpectedError(runs[r], i)

\* three ids, the second one's fetch function throws, the tasks completed in
\* another order than the input order, and fetch_all has returned
C9_Witness ==
    \E r \in DOMAIN runs :
        /\ runs[r].pc = "returned"
        /\ runs[r].ids = <<"codex", "claude", "codex">>
        /\ runs[r].behav["claude"] = [kind |-> "raise", msg |-> "boom"]
        /\ runs[r].behav["codex"].kind = "ok"
        /\ runs[r].order = <<3, 2, 1>>

\* the providers whose behaviour differs between the two calls
Varied ==
    {id \in Registered : \E r1, r2 \in DOMAIN runs : runs[r1].behav[id] # runs[r2].behav[id]}

\* C10: two calls of fetch_all that differ only in the behaviour of one
\* provider return the same result for every other provider, and neither
\* call fails.
C10_Isolation ==
    \A r1, r2 \in DOMAIN runs :
        /\ runs[r1].pc # "raised"
        /\ (runs[r1].pc = "returned" /\ runs[r2].pc = "returned") =>
              /\ Len(runs[r1].ret) = Len(runs[r2].ret)
              /\ \A i \in DOMAIN runs[r1].ids :
                    runs[r1].ids[i] \notin Varied => runs[r1].ret[i] = runs[r2].ret[i]

\* both calls have returned; in one of them a provider threw, in the other it
\* did not, and another provider was fetched in both
C10_Witness ==
    /\ DOMAIN runs = {1, 2}
    /\ runs[1].pc = "returned" /\ runs[2].pc = "returned"
    /\ \E id \in Varied :
          /\ runs[1].behav[id].kind = "ok"
          /\ runs[2].behav[id].kind = "raise"
          /\ id \in Range(runs[1].ids)
          /\ \E i \in DOMAIN runs[1].ids : runs[1].ids[i] \in Registered \ Varied

\* C11: fetch_one enforces its timeout: once more than the timeout has passed
\* since the call was made, every fetch_one task of the call has returned,
\* whether or not its fetch function has finished.
C11_TimeoutEnforced ==
    (now - StartMs > TimeoutMs) =>
        \A r \in DOMAIN runs : Done(runs[r]) = DOMAIN runs[r].ids

\* C12: fetch_one for an id without a registered fetch function returns an
\* error result whose provider_id is that id and whose error is
\* "Unknown provider: <id>", whatever any fetch function would do (none is
\* invoked), and never raises.
C12_UnknownProvider ==
    /\ \A id \in AllIds \ Registered, b \in Behaviours :
          FetchOne(id, b) =
             [raised |-> FALSE,
              value |-> [provider_id |-> id, error |-> "Unknown provider: " \o id]]
    /\ \A r \in DOMAIN runs : \A i \in Done(runs[r]) :
          runs[r].ids[i] \notin Registered =>
             /\ runs[r].results[i].provider_id = runs[r].ids[i]
             /\ runs[r].results[i].error = "Unknown provider: " \o runs[r].ids[i]

\* the task for an id that is not registered is done, tasks of registered
\* ids of the same call are not
C12_Witness ==
    \E r \in DOMAIN runs : \E i \in Done(runs[r]) :
        /\ runs[r].ids[i] = UnknownId
        /\ runs[r].results[i].error = "Unknown provider: does-not-exist"
        /\ \E k \in DOMAIN runs[r].ids :
              k \notin Done(runs[r]) /\ runs[r].ids[k] \in Registered

(***************************************************************************)
(* Properties of get_valid_credentials and of the credential store.        *)
(***************************************************************************)
\* the refresh grant of the call failed: no response, a response other than
\* 200, or a response without an access token
RefreshFailed ==
    /\ cred_call.pc = "done" /\ cred_call.requested
    /\ \/ cred_call.resp.kind = "transport"
       \/ cred_call.resp.status # 200
       \/ cred_call.resp.body.access_token = Missing

\* the refresh grant of the call succeeded
RefreshSucceeded ==
    /\ cred_call.pc = "done" /\ cred_call.requested
    /\ cred_call.resp.kind = "http" /\ cred_call.resp.status = 200
    /\ cred_call.resp.body.access_token # Missing
    /\ cred_call.resp.body.expires_in # NoExpiresIn

\* the record of the call's provider that auth.json held when the call was made
StoredAtCall == load_provider(cred_call.file, cred_call.p)

\* C13: when the refresh grant of an expired record fails, the call returns
\* absent without raising and auth.json still holds the expired record.
C13_FailedRefreshAbsent ==
    RefreshFailed =>
        /\ cred_call.kind = "none"
        /\ auth_file = cred_call.file
        /\ load_provider(auth_file, cred_call.p) = StoredAtCall

\* C14: when the stored record is expired and the refresh grant succeeds, the
\* call returns the access token of the response, and auth.json then holds
\* the new record: loading it gives the new token and the new expiry.
C14_RefreshedTokenStored ==
    RefreshSucceeded =>
        /\ cred_call.at >= cred_call.creds.expires
        /\ cred_call.kind = "value"
        /\ cred_call.access = cred_call.resp.body.access_token
        /\ LET loaded == load_credentials(auth_file, cred_call.p)
           IN  /\ loaded # NoCreds
               /\ loaded.access = cred_call.resp.body.access_token
               /\ loaded.expires =
                     store_op.at + cred_call.resp.body.expires_in * 1000 - 300000
               /\ loaded.expires > cred_call.creds.expires

\* a record that expired at the very millisecond of the call was refreshed
C14_Witness ==
    /\ RefreshSucceeded
    /\ cred_call.creds.expires = StartMs + TickMs
    /\ cred_call.at = StartMs + TickMs
    /\ cred_call.access = "acc1"
    /\ load_provider(auth_file, cred_call.p).access = "acc1"

\* C15: when load_credentials finds a record that is not expired the call
\* returns its access token, POSTs no refresh grant and leaves auth.json as
\* it was; when it finds none the call returns absent, also without a POST.
C15_FreshTokenUntouched ==
    cred_call.pc # "idle" =>
        /\ (cred_call.creds # NoCreds /\ cred_call.at < cred_call.creds.expires) =>
              /\ cred_call.pc = "done"
              /\ cred_call.kind = "value"
              /\ cred_call.access = Get(StoredAtCall, "access")
              /\ cred_call.p \in {CodexId, GeminiId} => cred_call.ret = StoredAtCall
              /\ ~cred_call.requested
              /\ auth_file = cred_call.file
        /\ cred_call.creds = NoCreds =>
              /\ cred_call.pc = "done"
              /\ cred_call.kind = "none"
              /\ ~cred_call.requested
              /\ auth_file = cred_call.file

\* a record that expires one tick after the call was returned as stored
C15_Witness ==
    /\ cred_call.pc = "done" /\ cred_call.kind = "value"
    /\ cred_call.p = ClaudeId
    /\ cred_call.at = StartMs
    /\ cred_call.creds.expires = StartMs + TickMs
    /\ cred_call.access = "acc0"
    /\ ~cred_call.requested

\* the response of the refresh grant returns key f of the credentials
ReturnedByResponse(f) ==
    CASE f = "refresh" -> cred_call.resp.body.refresh_token # Missing
      [] f = "accountId" -> Truthy(ExtractAccountId(cred_call.resp.body.access_token))
      [] f = "email" -> Truthy(ExtractEmail(cred_call.resp.body.id_token))
      [] OTHER -> FALSE

\* C16: after a successful refresh every key of the stored record that the
\* response does not return (refresh, accountId, projectId, email, any other
\* key) has the value it had before.
C16_CarriesForward ==
    RefreshSucceeded =>
        \A f \in {"refresh", "accountId", "projectId", "email", "foreign"} :
            (StoredAtCall[f] # Missing /\ ~ReturnedByResponse(f)) =>
                load_provider(auth_file, cred_call.p)[f] = StoredAtCall[f]

C18_TokenlessRecordAbsent ==
    (/\ cred_call.pc = "done"
     /\ \/ ~Truthy(StoredAtCall.access)
        \/ ~Truthy(StoredAtCall.refresh)) =>
        cred_call.kind = "none"

Entry(file, id) ==
    IF id \in DOMAIN load_all(file) THEN load_all(file)[id] ELSE NoCreds

\* C20: save_provider(id, r) and clear_provider(id) change the entry of id
\* only: the entry of every other provider id is the same before and after.
C20_OthersUntouched ==
    [][store_op' # store_op =>
          \A other \in AuthIds \ {store_op'.id} :
              Entry(auth_file', other) = Entry(auth_file, other)]_vars

\* a record was saved and another cleared while a third provider's record,
\* there from the start, is still in auth.json
C20_Witness ==
    /\ store_op.n = 2
    /\ store_op.op = "clear"
    /\ store_op.id = CopilotId
    /\ Entry(auth_file, CursorKey) = CursorCreds
    /\ Entry(auth_file, ClaudeId).type = "oauth"
    /\ Entry(auth_file, CopilotId) = NoCreds

(***************************************************************************)
(* Properties of calls that overlap.                                       *)
(***************************************************************************)
\* the refresh of provider p has written its record
Wrote(p) == calls[p].pc = "done" /\ calls[p].wrote > 0

\* the refreshes of p and q overlap: each loaded its record before the other
\* one wrote
Overlap(p, q) ==
    /\ Wrote(p) /\ Wrote(q)
    /\ calls[p].began < calls[q].wrote
    /\ calls[q].began < calls[p].wrote

\* C21: when the refreshes of two different providers overlap (each loaded
\* its own record before the other one wrote), auth.json holds the record
\* each of them wrote: neither is lost or back at its old value.
C21_BothWritesKept ==
    \A p \in OAuthProviders, q \in OAuthProviders :
        (p # q /\ Overlap(p, q)) =>
            /\ load_provider(auth_file, p) = calls[p].saved
            /\ load_provider(auth_file, q) = calls[q].saved

\* codex and gemini have overlapped, and each has replaced the record it had
C21_Witness ==
    /\ Overlap(CodexId, GeminiId)
    /\ calls[CodexId].saved # calls[CodexId].creds
    /\ calls[GeminiId].saved # calls[GeminiId].creds
    /\ calls[CodexId].wrote < calls[GeminiId].wrote

(***************************************************************************)
(* Properties of a corrupt credential file.                                *)
(***************************************************************************)
\* C22: when auth.json is corrupt, load_all returns the empty map and
\* load_provider returns None for every id without raising, so the
\* credentials call of a fetch returns None instead of raising.
C22_CorruptFileIsEmpty ==
    (auth_file \in CorruptFiles) =>
        /\ (store_op.op # "none") =>
               /\ store_op.op = "load"
               /\ store_op.rec = NoCreds
               /\ load_all(auth_file) = [id \in {} |-> NoCreds]
        /\ (cred_call.pc = "done") => (cred_call.kind = "none")

PastedStateDiffers ==
    /\ login.raw.form \in {"hash", "url"}
    /\ Truthy(login.raw.state)
    /\ login.raw.state # ExpectedState

\* C24: when the pasted input carries a state (after '#', or as the state
\* parameter of a redirect URL) that differs from the one sent in the
\* authorization URL, the login fails before the code is exchanged and
\* auth.json stays as it was.
C24_StateMismatchStops ==
    PastedStateDiffers =>
        /\ login.pc = "done"
        /\ login.exc = "RuntimeError"
        /\ ~login.exchanged
        /\ auth_file = login.file

\* the login has failed for one of the reasons listed: empty input, a token
\* exchange that failed or was answered with a status other than 200, or a
\* 200 response the credentials cannot be built from
ListedFailure ==
    /\ login.pc = "done" /\ login.exc # None
    /\ \/ login.raw = EmptyText
       \/ /\ login.exchanged
          /\ \/ login.resp.kind = "transport"
             \/ login.resp.status # 200
             \/ login_creds(login.p, login.resp.body, now, None).exc # None

\* C25: an interactive login that fails on empty input, on a non-2xx token
\* exchange or on a token response missing a required field raises
\* RuntimeError and leaves auth.json exactly as it was.
C25_FailureIsRuntimeError ==
    ListedFailure =>
        /\ login.exc = "RuntimeError"
        /\ login.saved = NoCreds
        /\ auth_file = login.file

\* C26: once the listener has been started, it is shut down on every exit
\* of interactive_login: no serving thread is left behind.
C26_ListenerTornDown ==
    (login.pc = "done") => (login.server # "serving")

\* the texts the prompt asks for: the code, or the redirect URL with the
\* code and the state sent
ValidPasted ==
    {BareCode("code1"),
     [form |-> "url", code |-> "code1", state |-> ExpectedState]}

\* the exchange was answered with every field, and (gemini) the project
\* was discovered
GoodExchange ==
    /\ login.exchanged
    /\ login.resp.status = 200
    /\ login.resp.body.access_token = "jwt-acct1"
    /\ login.resp.body.refresh_token = "ref1"
    /\ login.resp.body.expires_in = 3600
    /\ login.p = GeminiId => login.discovery = "proj1"

\* the login is over: it has exchanged the code pasted and saved the
\* credentials
Completed ==
    /\ login.exc = None
    /\ login.code = BareCode("code1")
    /\ login.saved # NoCreds
    /\ login.saved.access = "jwt-acct1"
    /\ load_provider(auth_file, login.p) = login.saved

\* the port of the callback listener could not be bound
Unbound ==
    /\ login.p \in CallbackProviders
    /\ login.pc # "idle"
    /\ login.server = "none"

\* C27: when the callback port cannot be bound, interactive_login does not
\* wait for a callback: it prompts for the code or URL at once and, given
\* valid input and a successful exchange, saves the credentials.
C27_UnboundFallsBack ==
    Unbound =>
        /\ login.pc \in {"prompt", "exchange", "done"}
        /\ now = StartMs /\ ~login.timedout
        /\ (login.pc = "prompt") => (login.exc = None)
        /\ (login.pc = "done" /\ login.raw \in ValidPasted /\ GoodExchange) =>
              Completed

\* an unbound codex login has been completed from a pasted redirect URL
C27_Witness ==
    /\ Unbound
    /\ login.p = CodexId
    /\ login.pc = "done"
    /\ login.raw = [form |-> "url", code |-> "code1", state |-> ExpectedState]
    /\ GoodExchange
    /\ Completed

\* the wait ended with the time up and no code received
TimedOut ==
    /\ login.timedout
    /\ login.pc \in {"prompt", "exchange", "done"}
    /\ login.received_code = None

C29_HandlerChecksState ==
    [][(login'.received_code # login.received_code) =>
          /\ login'.req.path = "callback"
          /\ login'.req.state = ExpectedState
          /\ Truthy(login'.req.code)
          /\ login'.received_code = login'.req.code
          /\ login'.event]_vars

\* the listener has accepted a code after turning down a request with
\* another state
C29_Witness ==
    /\ login.pc = "waiting"
    /\ login.p = CodexId
    /\ login.req = [path |-> "callback", state |-> ExpectedState,
                    code |-> "code2", error |-> None]
    /\ login.received_code = "code2"
    /\ login.event

(***************************************************************************)
(* Properties of the status line.                                          *)
(***************************************************************************)
\* the configured providers that have completed in the current cycle
CompletedInCycle == ConfiguredIds \ pending_provider_ids

\* C30: while some provider is pending (and no worker is between recording
\* its result and leaving the pending set), the status line shows
\* "Loading k/total" with k = total - |pending| and counts ok and err over
\* the results of the k providers completed in this cycle only.
C30_StatusCountsCurrentCycle ==
    (/\ pending_provider_ids # {}
     /\ Loaded # {}
     /\ \A w \in WorkerIds : workers[w] # "card") =>
        LET st == update_status("Refreshing")
            k == Len(config_providers) - Cardinality(pending_provider_ids)
        IN  /\ st.head = "Loading"
            /\ st.loaded = k /\ st.total = Len(config_providers)
            /\ st.ok = Cardinality({id \in CompletedInCycle :
                                       ~Truthy(providers[id].error)})
            /\ st.err = Cardinality({id \in CompletedInCycle :
                                        Truthy(providers[id].error)})

(***************************************************************************)
(* C31..C37 : the refresh cycles of the dashboard and their fetches         *)
(***************************************************************************)
\* the workers launched by cycle c for provider id
WorkersOf(c, id) ==
    {w \in WorkerIds : /\ w[1] = c
                       /\ w[2] \in DOMAIN config_providers
                       /\ WorkerProvider(w) = id}

\* the step runs the end-of-cycle block of _fetch_provider's finally
EndsCycle == decisions' = decisions + 1

\* C31: at the end of every fetch cycle each configured provider has a result
\* recorded from that cycle: when the end-of-cycle block runs, a fetch that the
\* cycle being ended launched for the provider has returned and stored its
\* result, whether it failed or not.
C31_CycleEndsWithAllResults ==
    [][EndsCycle =>
          \A id \in ConfiguredIds :
              \E w \in WorkersOf(cycles, id) : workers[w] # "fetch"]_vars

\* worker w runs its finally block in this step
Finishes(w) == workers[w] = "card" /\ workers'[w] = "none"

\* C36: a fetch completion only affects the cycle that launched it: the
\* finally block of a fetch launched by an earlier cycle removes no id from
\* the pending set of the current cycle and does not end the current cycle.
C36_CompletionStaysInItsCycle ==
    [][\A w \in WorkerIds :
          Finishes(w) /\ w[1] < cycles =>
              /\ pending_provider_ids' = pending_provider_ids
              /\ refresh_in_progress' = refresh_in_progress
              /\ decisions' = decisions]_vars

\* C37: the pending set holds configured ids only, the queued flag is set
\* only while a cycle is in progress, and with no cycle in progress the
\* pending set is empty.
C37_CoordinatorInvariants ==
    /\ pending_provider_ids \subseteq ConfiguredIds
    /\ refresh_queued => refresh_in_progress
    /\ ~refresh_in_progress => pending_provider_ids = {}

\* a call was queued during a cycle over two providers, one of them still
\* pending
C37_Witness ==
    /\ refresh_queued
    /\ Cardinality(ConfiguredIds) = 2
    /\ Cardinality(pending_provider_ids) = 1
    /\ decisions >= 1

(***************************************************************************)
(* C32, C33 : the fetch call of a provider and its credentials              *)
(***************************************************************************)
\* C32: when the service rejects the stored credential, the fetch returns an
\* error result and clears the provider's record, the records of the other
\* providers staying as they were, and the next fetch of that provider
\* returns the missing-credentials error without sending a request.
C32_RejectedCredentialCleared ==
    [][/\ fetch.pc = "http" /\ fetch'.pc = "done" /\ Rejected(fetch') =>
            /\ Truthy(fetch'.error)
            /\ fetch.p \notin DOMAIN load_all(auth_file')
            /\ \A q \in DOMAIN load_all(auth_file) \ {fetch.p} :
                  /\ q \in DOMAIN load_all(auth_file')
                  /\ load_all(auth_file')[q] = load_all(auth_file)[q]
            /\ DOMAIN load_all(auth_file') \subseteq DOMAIN load_all(auth_file)
       /\ fetch'.n = fetch.n + 1 /\ fetch'.p = fetch.p /\ Rejected(fetch) =>
            /\ fetch'.pc = "done"
            /\ fetch'.raised = None
            /\ fetch'.error = NoCredentialsError(ProviderOf(fetch.p))
            /\ ~fetch'.invoked]_vars

\* a fetch reported missing credentials after the fetch before it had the
\* same provider's credential rejected, and auth.json still holds a record of
\* another provider
C32_Witness ==
    /\ fetch.n = 2
    /\ fetch.pc = "done"
    /\ fetch.prev.p = fetch.p
    /\ fetch.prev.rejected
    /\ fetch.error = NoCredentialsError(ProviderOf(fetch.p))
    /\ DOMAIN load_all(auth_file) # {}

\* the call f found no usable credential: auth.json holds for the provider
\* no record of a valid type, or a record with neither its token (cookie)
\* nor a refresh token; for the API-key provider, neither the settings nor
\* the environment hold a key
NoUsableCredential(f) ==
    IF f.p = OpencodeId
    THEN ~Truthy(Strip(f.args.setting)) /\ ~Truthy(Strip(f.args.env))
    ELSE LET rec == load_provider(f.file, f.p)
         IN  \/ rec = NoCreds
             \/ /\ ~Truthy(Get(rec, IF f.p = CursorKey THEN "cookie" ELSE "access"))
                /\ ~Truthy(Get(rec, "refresh"))

\* the error texts that tell the user how to authenticate
HowToAuthenticate(p) ==
    IF p = OpencodeId THEN {NoApiKeyError}
    ELSE {NoCredentialsError(ProviderOf(p)), GeminiTokenMissing}

CallMade == cred_call.pc = "idle" /\ cred_call'.pc # "idle"

\* what the provider loads from an auth.json that holds rec for it
LoadedFrom(p, rec) == load_credentials(save_provider(MissingFile, p, rec), p)

\* C34: a provider keeps no credential between calls: the call that follows
\* clear_provider(id) returns None, and the call that follows
\* save_provider(id, r) works from r: it loads r, returns r's access token if
\* r is usable and not expired, and otherwise refreshes with r or returns
\* None.
C34_NoCachedCredential ==
    [][CallMade /\ store_op.id = cred_call'.p =>
          /\ store_op.op = "clear" =>
                cred_call'.pc = "done" /\ cred_call'.kind = "none"
          /\ store_op.op = "save" =>
                /\ cred_call'.creds = LoadedFrom(cred_call'.p, store_op.rec)
                /\ cred_call'.kind = "value" =>
                      /\ store_op.rec = cred_call'.creds
                      /\ cred_call'.access = Get(store_op.rec, "access")
                /\ cred_call'.pc = "refreshing" =>
                      store_op.rec = cred_call'.creds]_vars

\* a call returned the token of the record that the second write to
\* auth.json had saved for its provider
C34_Witness ==
    /\ cred_call.pc = "done"
    /\ cred_call.kind = "value"
    /\ store_op.op = "save"
    /\ store_op.id = cred_call.p
    /\ cred_call.access = Get(store_op.rec, "access")
    /\ store_op.n = 2

(***************************************************************************)
(* C35 : the PKCE pair                                                      *)
(***************************************************************************)
\* the bits of a byte sequence, most significant first
RECURSIVE BitsOf(_)
BitsOf(data) ==
    IF Len(data) = 0 THEN <<>>
    ELSE [i \in 1..8 |-> (Head(data) \div (2 ^ (8 - i))) % 2] \o BitsOf(Tail(data))

\* base64url without padding (RFC 4648, section 5): the bits in groups of
\* six, the last group filled with zero bits
RECURSIVE SixBitGroups(_)
SixBitGroups(bits) ==
    IF Len(bits) = 0 THEN <<>>
    ELSE LET g == [i \in 1..6 |-> IF i <= Len(bits) THEN bits[i] ELSE 0]
             v == 32 * g[1] + 16 * g[2] + 8 * g[3] + 4 * g[4] + 2 * g[5] + g[6]
         IN  <<B64Char(v)>>
             \o SixBitGroups(IF Len(bits) <= 6 THEN <<>>
                             ELSE SubSeq(bits, 7, Len(bits)))

UnpaddedBase64Url(data) == SixBitGroups(BitsOf(data))

\* C35: every pair _generate_pkce produces has as challenge the unpadded
\* base64url encoding of the SHA-256 digest of the verifier, and a verifier
\* that is the encoding of at least 256 bits drawn from the operating
\* system's random source.
C35_PkcePair ==
    pkce.pc = "done" =>
        /\ pkce.challenge =
              UnpaddedBase64Url(sha256_digest(encode_ascii(pkce.verifier)))
        /\ pkce.verifier = UnpaddedBase64Url(pkce.random)
        /\ 8 * RandomBytes(pkce.p) >= 256

\* a pair was generated from bytes whose encoding uses both characters that
\* set the URL-safe alphabet apart, and whose digest is not the digest of
\* the random bytes themselves
C35_Witness ==
    /\ pkce.pc = "done"
    /\ "-" \in Range(pkce.verifier)
    /\ "_" \in Range(pkce.verifier)
    /\ sha256_digest(encode_ascii(pkce.verifier)) # sha256_digest(pkce.random)
    /\ B64Pad \notin Range(pkce.verifier) \cup Range(pkce.challenge)

(***************************************************************************)
(* Properties of the token calls of the dashboard's workers.               *)
(***************************************************************************)
\* worker w is between the load and the save of get_valid_access_token
InSequence(w) == workers[w] = "fetch" /\ calls[w].pc = "refreshing"

\* C38: at most one load -> refresh -> save sequence per provider id is in
\* progress at any time in the dashboard: two workers that are both between
\* the load and the save of a record are workers of different providers.
C38_OneSequencePerProvider ==
    \A w1 \in WorkerIds, w2 \in WorkerIds :
        (InSequence(w1) /\ InSequence(w2) /\ WorkerToken(w1) = WorkerToken(w2))
            => w1 = w2

(***************************************************************************)
(* Properties of the hand-over from the callback listener.                 *)
(***************************************************************************)
\* the handler accepts request req: it stores the code and answers 200
AcceptedBy(p, req) ==
    /\ req.path = "callback"
    /\ req.state = ExpectedState
    /\ Truthy(req.code)
    /\ p = GeminiId => ~Truthy(req.error)

\* the wait of the login has ended because the handler accepted a callback
EndedByCallback ==
    /\ login.pc = "woken"
    /\ ~login.timedout
    /\ AcceptedBy(login.p, login.setter)

\* C39: when the wait on the callback event has ended because the handler
\* accepted a callback, interactive_login goes on to exchange the code of
\* exactly that callback and does not prompt; the code a login proceeds with
\* after the wait is never the one an earlier login left behind.
C39_HandOver ==
    [][/\ (EndedByCallback /\ login'.pc # "woken") =>
             /\ login'.pc = "exchange"
             /\ login'.code = BareCode(login.setter.code)
       /\ (login.pc = "woken" /\ login'.pc = "exchange") =>
             login'.code # BareCode(LeftoverCode)]_vars

(***************************************************************************)
(* Properties of the login command.                                        *)
(***************************************************************************)
\* the provider has an entry in settings.json that is enabled
EnabledIn(file, provider_id) ==
    /\ file.state = "ok"
    /\ \E i \in DOMAIN file.providers :
          /\ file.providers[i].id = provider_id
          /\ file.providers[i].enabled \in {"true", Missing}

\* C40: login_provider enables the provider in settings.json only after
\* interactive_login has returned: the file changes only in the step in which
\* the login has returned without exception, and then the provider is enabled
\* in it; when the login raises, the file is as it was when login_provider was
\* called and the exception leaves login_provider.
C40_EnabledAfterLogin ==
    /\ cli.pc = "login" => settings_file = cli.before
    /\ cli.pc = "done" =>
          IF cli.ended = "returned"
          THEN /\ cli.exc = None
               /\ EnabledIn(settings_file, cli.provider)
          ELSE /\ settings_file = cli.before
               /\ cli.exc = IF cli.ended = "pending" THEN "SystemExit"
                            ELSE cli.ended

\* a login that returned has enabled a provider that was disabled, and the
\* file has changed
C40_Witness ==
    /\ cli.pc = "done"
    /\ cli.ended = "returned"
    /\ cli.provider = "codex"
    /\ ~EnabledIn(cli.before, "codex")
    /\ cli.before.state = "ok"
    /\ settings_file # cli.before
    /\ EnabledIn(settings_file, "codex")

====
